---- MODULE Spec2Model ----
(***************************************************************************)
(* EV-Secure: the task-based firmware pipeline (evsecure-firmware/main)    *)
(* and the Arduino RelayController, modelled as state machines.            *)
(*                                                                         *)
(* Three families of specifications share the variables below:            *)
(*   Spec        the FreeRTOS tasks of main.c interleaved at their shared  *)
(*               accesses (queues, current_safety_state, contactor pin);   *)
(*   ScorerSpec  one cycle of ml_anomaly_task applied to a feature vector  *)
(*               drawn from a bounded set;                                 *)
(*   RelaySpec / RelayRaceSpec                                             *)
(*               RelayController.h, its operations run one after another   *)
(*               against a millis() clock, and setRelayState raced against *)
(*               emergencyStop statement by statement.                     *)
(* Numbers that are floats in the source are fixed-point integers in       *)
(* thousandths, wrapped in a record that keeps NaN and the infinities.     *)
(***************************************************************************)
EXTENDS Integers, Sequences, FiniteSets, TLC

VARIABLES
    \* ---- evsecure-firmware/main/main.c ----
    feature_queue,          \* xQueueCreate(10, feature_vector_t*): the queued vectors
    alert_queue,            \* xQueueCreate(5, alert_t)
    ocpp_queue,             \* xQueueCreate(10, ocpp_message_t)
    safety_mutex,           \* holder of safety_mutex, or "free"
    current_safety_state,   \* static safety_state_t
    current_anomaly_score,  \* static float, thousandths
    session_counter,        \* static uint32_t; current_session_id is derived from it
    contactor_pin,          \* last level written to CONTACTOR_CONTROL_PIN, -1 before any write
    prev_v, prev_i,         \* statics of power_sense_task
    ml_last,                \* locals of ml_anomaly_task after its last scoring
    safety_pc, safety_alert,\* position and local alert of safety_control_task
    ocpp_msg,               \* local msg of ocpp_monitor_task
    ui_safety_state,        \* the state ui_task handed to the display
    \* ---- Arduino/RelayController.h ----
    now,                    \* millis()
    relay_pin,              \* last level written to RELAY_CONTROL_PIN
    _currentState,
    _status,                \* RelayStatus: state, isHealthy, emergencyStopActive,
                            \*   manualOverride, lastStateChange, faultCount, lastFaultReason
    _emergencyStopActive,
    _manualOverrideEnabled,
    _lastStateChange,
    _overcurrentStartTime,
    _lastEmergencyStopTime,
    _overcurrentDetected,
    _faultHistory,          \* the records appended by _logFault, oldest first
    currentState,           \* extern SystemState currentState (EV_Secure_Config.h)
    last_call,              \* the RelayController operation that ran last, with its result
    \* ---- setRelayState raced against emergencyStop ----
    set_pc, stop_pc,        \* positions of the two callers
    \* ---- evsecure-firmware/components/ocpp_proxy/ocpp_proxy.c ----
    message_queue,          \* static QueueHandle_t: created or NULL, and its items
    message_sequence,       \* static uint32_t
    current_metrics,        \* remote_stop_count, malformed_count, out_of_sequence_count
    ws_frame,               \* the frame the event handler ran on last
    ws_msg,                 \* the local msg of the event handler after that frame
    \* ---- the emergency-stop button wired to EMERGENCY_STOP_PIN ----
    emergency_stop_pin,     \* the level digitalRead(EMERGENCY_STOP_PIN) returns
    emergency_stop_since,   \* millis() when the input took that level
    \* ---- Arduino/APIManager.h ----
    _initialized,           \* static bool APIManager::_initialized
    _requestCount,          \* static int
    _requestWindowStart,    \* static unsigned long
    window_requests,        \* HTTP requests sendData, getCommand and sendAlert have
                            \*   sent since _requestWindowStart was set
    api_call,               \* the APIManager method that ran last: op, ok, sent
    retry_pc,               \* _retryRequest: where the loop stands
    attempt,                \*   its loop variable
    retry_delays,           \*   the delay() calls it has made, oldest first
    retry_result,           \*   the value it returned
    \* ---- main.c: the feature_vector_t buffers behind feature_queue ----
    heap,                   \* per allocation: state, the free() calls on it, who freed
    ptr_queue,              \* feature_queue as the queue of pointers it is
    sense_pc, sense_ptr,    \* power_sense_task: position, feature_ptr
    score_pc, score_ptr,    \* ml_anomaly_task: position, feature_ptr
    log_pc, log_ptr,        \* logging_task: position, feature_ptr
    read_after_free         \* a task has read a buffer that was not allocated

pipeVars == <<feature_queue, alert_queue, ocpp_queue, safety_mutex,
              current_safety_state, current_anomaly_score, session_counter,
              contactor_pin, prev_v, prev_i, ml_last, safety_pc, safety_alert,
              ocpp_msg, ui_safety_state>>

relayVars == <<now, relay_pin, _currentState, _status, _emergencyStopActive,
               _manualOverrideEnabled, _lastStateChange, _overcurrentStartTime,
               _lastEmergencyStopTime, _overcurrentDetected, _faultHistory,
               currentState, last_call>>

raceVars == <<set_pc, stop_pc>>

proxyVars == <<message_queue, message_sequence, current_metrics, ws_frame, ws_msg>>

buttonVars == <<emergency_stop_pin, emergency_stop_since>>

apiVars == <<_initialized, _requestCount, _requestWindowStart, window_requests,
             api_call, retry_pc, attempt, retry_delays, retry_result>>

bufVars == <<heap, ptr_queue, sense_pc, sense_ptr, score_pc, score_ptr,
             log_pc, log_ptr, read_after_free>>

vars == <<pipeVars, relayVars, raceVars, proxyVars, buttonVars, apiVars, bufVars>>

(***************************************************************************)
(* IEEE-754 single precision, as far as the code depends on it: a value is *)
(* finite (v in thousandths), NaN, +Inf or -Inf.                           *)
(***************************************************************************)
FScale == 10 ^ 3

F(x) == [k |-> "fin", v |-> x]

NaN == [k |-> "nan", v |-> 0]

PInf == [k |-> "inf", v |-> 1]

NInf == [k |-> "inf", v |-> -1]

Sign(x) == IF x > 0 THEN 1 ELSE IF x < 0 THEN -1 ELSE 0

FInf(s) == IF s > 0 THEN PInf ELSE NInf

FIsFinite(a) == a.k = "fin"

FNeg(a) == IF a.k = "nan" THEN NaN ELSE [k |-> a.k, v |-> -a.v]

FAdd(a, b) ==
    IF a.k = "nan" \/ b.k = "nan" THEN NaN
    ELSE IF a.k = "inf" /\ b.k = "inf" THEN (IF a.v = b.v THEN a ELSE NaN)
    ELSE IF a.k = "inf" THEN a
    ELSE IF b.k = "inf" THEN b
    ELSE F(a.v + b.v)

FSub(a, b) == FAdd(a, FNeg(b))

\* truncating division toward zero, as the rounding of the last digit
QuotT(x, y) == Sign(x) * Sign(y) * ((Sign(x) * x) \div (Sign(y) * y))

FMul(a, b) ==
    IF a.k = "nan" \/ b.k = "nan" THEN NaN
    ELSE IF a.k = "inf" \/ b.k = "inf"
         THEN (IF Sign(a.v) * Sign(b.v) = 0 THEN NaN ELSE FInf(Sign(a.v) * Sign(b.v)))
    ELSE F(QuotT(a.v * b.v, FScale))

\* the divisors of the code are constants that are +0.0 or positive
FDiv(a, b) ==
    IF a.k = "nan" \/ b.k = "nan" THEN NaN
    ELSE IF b.k = "inf" THEN (IF a.k = "inf" THEN NaN ELSE F(0))
    ELSE IF b.v = 0 THEN (IF a.v = 0 THEN NaN ELSE FInf(Sign(a.v)))
    ELSE IF a.k = "inf" THEN FInf(Sign(a.v) * Sign(b.v))
    ELSE F(QuotT(a.v * FScale, b.v))

\* a > b of C: false as soon as one side is NaN
FGt(a, b) ==
    IF a.k = "nan" \/ b.k = "nan" THEN FALSE
    ELSE IF a.k = "inf" THEN a.v > 0 /\ ~(b.k = "inf" /\ b.v > 0)
    ELSE IF b.k = "inf" THEN b.v < 0
    ELSE a.v > b.v

FLt(a, b) == FGt(b, a)

\* fminf of C99: a NaN argument is treated as missing data
fminf(a, b) ==
    IF a.k = "nan" THEN b
    ELSE IF b.k = "nan" THEN a
    ELSE IF FLt(b, a) THEN b ELSE a

(***************************************************************************)
(* Bounds of the model.                                                    *)
(***************************************************************************)
\* queue lengths explored (the firmware creates them with 10, 5 and 10 slots)
FeatureQueueLen == 1

AlertQueueLen == 1

OcppQueueLen == 1

\* StartTransaction messages explored (session_counter is a uint32_t)
MaxSessions == 1

(***************************************************************************)
(* evsecure_config.h                                                       *)
(***************************************************************************)
RULE_SCORE_WEIGHT == 600

ML_SCORE_WEIGHT == 400

WARNING_THRESHOLD == 500

CRITICAL_THRESHOLD == 800

REMOTE_STOP_BURST_THRESHOLD == 3

MALFORMED_BURST_THRESHOLD == 2

THD_I_MULTIPLIER_THRESHOLD == 1500

OCPP_RATE_THRESHOLD == 600

BASELINE_THD_I == 2000

BASELINE_OCPP_RATE == 5000

FEATURE_SAMPLE_INTERVAL_MS == 250

CONTACTOR_ACTIVE_LOW == TRUE

SafetyStates == {"IDLE", "HANDSHAKE", "PRECHARGE", "CHARGING", "SUSPICIOUS", "LOCKDOWN"}

OcppMsgTypes == {"START_TRANSACTION", "METER_VALUES", "REMOTE_STOP_TRANSACTION",
                 "UPDATE_FIRMWARE", "UNKNOWN"}

(***************************************************************************)
(* tflite_micro.c: the simulated autoencoder.                              *)
(***************************************************************************)
feature_means == <<230000, 15000, 3500, 950, 2500, 3500, 0, 0, 5000, 0, 0, 0, 1000, 0, 25000>>

feature_stds == <<20000, 5000, 1500, 50, 1000, 1500, 10000, 5000, 2000, 1000, 1000, 1000, 0, 0, 10000>>

\* the placeholder weight (0.1f + i * 0.05f + j * 0.01f), indices from 0
Weight(i, j) == F(100 + i * 50 + j * 10)

InputFeatures(features) ==
    <<features.v_rms, features.i_rms, features.p_kw, features.pf,
      features.thd_v, features.thd_i, features.dvdt, features.didt,
      features.ocpp_rate, F(features.remote_stop_cnt * FScale),
      F(features.malformed * FScale), F(features.out_of_seq * FScale),
      IF features.fw_ok THEN F(1000) ELSE F(0),
      IF features.tamper THEN F(1000) ELSE F(0),
      features.temp_c>>

RECURSIVE Normalize(_, _, _)
\* for (i = from; i < 15; i++)
\*     normalized_features[i] = (input_features[i] - feature_means[i]) / feature_stds[i];
\* (element i of a C array is element i + 1 of the tuple)
Normalize(input, stds, from) ==
    IF from >= 15 THEN <<>>
    ELSE <<FDiv(FSub(input[from + 1], F(feature_means[from + 1])), F(stds[from + 1]))>>
         \o Normalize(input, stds, from + 1)

RECURSIVE RowSum(_, _, _, _)
\* for (j = from; j < n; j++) acc += in[j] * (0.1f + i * 0.05f + j * 0.01f);
RowSum(in, i, from, acc) ==
    IF from >= Len(in) THEN acc
    ELSE IF acc.k = "nan" THEN NaN
    ELSE RowSum(in, i, from + 1, FAdd(acc, FMul(in[from + 1], Weight(i, from))))

RECURSIVE Layer(_, _, _)
\* for (i = from; i < rows; i++) { out[i] = 0.0f; for (j ...) out[i] += ...; }
Layer(in, rows, from) ==
    IF from >= rows THEN <<>>
    ELSE <<RowSum(in, from, 0, F(0))>> \o Layer(in, rows, from + 1)

RECURSIVE SquaredError(_, _, _, _)
\* for (i = from; i < 15; i++) { diff = normalized[i] - decoded[i]; mse += diff * diff; }
SquaredError(normalized, decoded, from, mse) ==
    IF from >= 15 THEN mse
    ELSE IF mse.k = "nan" THEN NaN
    ELSE SquaredError(normalized, decoded, from + 1,
                      FAdd(mse, FMul(FSub(normalized[from + 1], decoded[from + 1]),
                                     FSub(normalized[from + 1], decoded[from + 1]))))

\* mse /= 15; *reconstruction_error = fminf(mse / 2.0f, 1.0f);
ErrorOf(normalized, decoded) ==
    fminf(FDiv(FDiv(SquaredError(normalized, decoded, 0, F(0)), F(15000)), F(2000)),
          F(1000))

\* the body of tflite_micro_inference with the standard deviations stds; each
\* array is bound once it is computed (normalized, then encoded, then decoded)
ReconstructionError(features, stds) ==
    CHOOSE e \in
        UNION {UNION {{ErrorOf(normalized, decoded) :
                          decoded \in {Layer(encoded, 15, 0)}} :
                      encoded \in {Layer(normalized, 8, 0)}} :
               normalized \in {Normalize(InputFeatures(features), stds, 0)}} : TRUE

(***************************************************************************)
(* main.c, ml_anomaly_task: the scoring of one feature vector.             *)
(***************************************************************************)
\* the rule score with the override testing the tamper switch alone
RuleScoreTamperOnly(f) ==
    IF f.tamper THEN 1000
    ELSE (IF f.remote_stop_cnt > REMOTE_STOP_BURST_THRESHOLD THEN 600 ELSE 0)
         + (IF f.malformed > MALFORMED_BURST_THRESHOLD THEN 400 ELSE 0)

\* the rules with the burst thresholds included in the burst
RuleScoreInclusive(f) ==
    LET burst     == IF f.remote_stop_cnt >= REMOTE_STOP_BURST_THRESHOLD THEN 600 ELSE 0
        malformed == IF f.malformed >= MALFORMED_BURST_THRESHOLD THEN 400 ELSE 0
        masking   == IF /\ FGt(f.thd_i, F((BASELINE_THD_I * THD_I_MULTIPLIER_THRESHOLD) \div FScale))
                        /\ FLt(f.ocpp_rate, F((BASELINE_OCPP_RATE * OCPP_RATE_THRESHOLD) \div FScale))
                     THEN 500 ELSE 0
    IN  IF f.tamper \/ ~f.fw_ok THEN 1000 ELSE burst + malformed + masking

RuleScore(f) ==
    LET burst     == IF f.remote_stop_cnt > REMOTE_STOP_BURST_THRESHOLD THEN 600 ELSE 0
        malformed == IF f.malformed > MALFORMED_BURST_THRESHOLD THEN 400 ELSE 0
        masking   == IF /\ FGt(f.thd_i, F((BASELINE_THD_I * THD_I_MULTIPLIER_THRESHOLD) \div FScale))
                        /\ FLt(f.ocpp_rate, F((BASELINE_OCPP_RATE * OCPP_RATE_THRESHOLD) \div FScale))
                     THEN 500 ELSE 0
    IN  IF f.tamper \/ ~f.fw_ok THEN 1000 ELSE burst + malformed + masking

CombinedScore(rule_score, ml_score) ==
    (RULE_SCORE_WEIGHT * rule_score + ML_SCORE_WEIGHT * ml_score) \div FScale

\* the thresholds compared with > instead of >=
AlertLevelStrict(combined) ==
    IF combined > WARNING_THRESHOLD
    THEN (IF combined > CRITICAL_THRESHOLD THEN "CRITICAL" ELSE "WARNING")
    ELSE "NONE"

AlertLevel(combined) ==
    IF combined >= WARNING_THRESHOLD
    THEN (IF combined >= CRITICAL_THRESHOLD THEN "CRITICAL" ELSE "WARNING")
    ELSE "NONE"

NominalFeature ==
    [v_rms |-> F(230000), i_rms |-> F(15000), p_kw |-> F(3450), pf |-> F(1000),
     thd_v |-> F(2500), thd_i |-> F(3500), dvdt |-> F(0), didt |-> F(0),
     ocpp_rate |-> F(5000), remote_stop_cnt |-> 0, malformed |-> 0, out_of_seq |-> 0,
     fw_ok |-> TRUE, tamper |-> FALSE, temp_c |-> F(25000)]

\* the vectors the model scores: the ones power_sense_task can build from
\* Readings (first sample and later ones) and the ones that reach each branch
\* of the rule score
ModelFeatures ==
    {[NominalFeature EXCEPT !.dvdt = F(d[1]), !.didt = F(d[2]), !.thd_i = F(th),
                            !.ocpp_rate = F(rate), !.remote_stop_cnt = rs,
                            !.malformed = mf, !.tamper = t, !.fw_ok = w] :
        d \in {<<0, 0>>, <<920000, 60000>>}, th \in {3000, 3500},
        rate \in {2900, 5000}, rs \in {0, 2, 3, 4}, mf \in {0, 2, 3},
        t \in BOOLEAN, w \in BOOLEAN}
    \cup
    \* vectors with a measurement that is not finite
    {[NominalFeature EXCEPT !.i_rms = x, !.tamper = t] :
        x \in {NaN, PInf, NInf}, t \in BOOLEAN}
    \cup
    {[NominalFeature EXCEPT !.thd_i = x, !.ocpp_rate = F(rate)] :
        x \in {NaN, PInf}, rate \in {2900, 5000}}

\* ReconstructionError over the vectors of the model, computed once
InferenceTable == [f \in ModelFeatures |-> ReconstructionError(f, feature_stds)]

\* *reconstruction_error of tflite_micro_inference (it returns ESP_OK once the
\* model is initialised, which ML_MODEL_READY_BIT guarantees)
tflite_micro_inference(features) == InferenceTable[features]

NoScoring ==
    [scored |-> FALSE, feature |-> NominalFeature, rule_score |-> 0, ml_score |-> 0,
     level |-> "NONE", sent |-> FALSE]

\* the block of ml_anomaly_task run on one dequeued vector (main.c:245-287):
\* the locals it leaves behind
Scoring(f, queue_has_room) ==
    LET ml       == tflite_micro_inference(f)
        rule     == RuleScore(f)
        combined == CombinedScore(rule, ml.v)
        \* a score that is not finite can only be NaN or -Inf, and passes no threshold
        level    == IF FIsFinite(ml) THEN AlertLevel(combined) ELSE "NONE"
    IN  [scored |-> TRUE, feature |-> f, rule_score |-> rule, ml_score |-> ml.v,
         level |-> level, sent |-> (level # "NONE" /\ queue_has_room)]

\* the rule scores the rules of ml_anomaly_task can add up to, and
\* reconstruction errors in [0, 1] around the values at which the combined
\* score meets a threshold
RuleScores == {0, 400, 500, 600, 900, 1000, 1100, 1500}

MlScores == {0, 250, 495, 500, 505, 750, 1000}

\* ml_anomaly_task from the combined score to xQueueSend (main.c:271-287), on
\* the locals rule_score and ml_score
fuse_and_alert ==
    /\ ~ml_last.scored
    /\ LET combined == CombinedScore(ml_last.rule_score, ml_last.ml_score)
           level    == AlertLevel(combined)
           sent     == level # "NONE" /\ Len(alert_queue) < AlertQueueLen
       IN  /\ ml_last' = [ml_last EXCEPT !.scored = TRUE, !.level = level, !.sent = sent]
           /\ current_anomaly_score' = combined
           /\ alert_queue' =
                IF sent
                THEN Append(alert_queue,
                            [level |-> level, score |-> combined,
                             session_id |-> session_counter])
                ELSE alert_queue

\* CONTACTOR_ACTIVE_LOW ? 0 : 1, the level written on a Critical alert
ContactorOpenLevel == IF CONTACTOR_ACTIVE_LOW THEN 0 ELSE 1

\* update_safety_state(new_state): the value current_safety_state has afterwards
update_safety_state(new_state) ==
    IF current_safety_state # new_state THEN new_state ELSE current_safety_state

(***************************************************************************)
(* main.c: the tasks.  An action is a stretch of one task that makes at    *)
(* most one access to the state shared with a task that can interfere:     *)
(* safety_control_task is cut between its write of current_safety_state    *)
(* and its write of the contactor pin, the other tasks run one turn of     *)
(* their loop at a time.                                                   *)
(***************************************************************************)
PipeInit ==
    /\ feature_queue = <<>>
    /\ alert_queue = <<>>
    /\ ocpp_queue = <<>>
    /\ safety_mutex = "free"
    /\ current_safety_state = "IDLE"
    /\ current_anomaly_score = 0
    /\ session_counter = 0
    /\ contactor_pin = -1
    /\ prev_v = F(0)
    /\ prev_i = F(0)
    /\ ml_last = NoScoring
    /\ safety_pc = "receive"
    /\ safety_alert = [level |-> "NONE", score |-> 0, session_id |-> 0]
    /\ ocpp_msg = [type |-> "UNKNOWN"]
    /\ ui_safety_state = "IDLE"

\* what ina226_read_measurements delivers when it succeeds
Readings == {[v_rms |-> F(230000), i_rms |-> F(15000), p_kw |-> F(3450),
              pf |-> F(1000), thd_v |-> F(2500), thd_i |-> F(3500)]}

\* the vector power_sense_task builds from a reading (main.c:145-166)
BuildFeature(r, tamper_level, integrity) ==
    LET interval == F(FEATURE_SAMPLE_INTERVAL_MS)
    IN  [v_rms |-> r.v_rms, i_rms |-> r.i_rms, p_kw |-> r.p_kw, pf |-> r.pf,
         thd_v |-> r.thd_v, thd_i |-> r.thd_i,
         dvdt |-> FDiv(FSub(r.v_rms, prev_v), interval),
         didt |-> FDiv(FSub(r.i_rms, prev_i), interval),
         ocpp_rate |-> F(5000), remote_stop_cnt |-> 0, malformed |-> 0,
         out_of_seq |-> 0,
         fw_ok |-> integrity, tamper |-> (tamper_level = 0),
         temp_c |-> F(25000)]

\* one period of power_sense_task (main.c:137-180)
power_sense_task ==
    /\ \E read_ok \in BOOLEAN, r \in Readings, tamper_level \in {0, 1}, integrity \in BOOLEAN :
         IF read_ok
         THEN /\ prev_v' = r.v_rms
              /\ prev_i' = r.i_rms
              /\ feature_queue' = IF Len(feature_queue) < FeatureQueueLen
                                  THEN Append(feature_queue,
                                              BuildFeature(r, tamper_level, integrity))
                                  ELSE feature_queue
         ELSE UNCHANGED <<prev_v, prev_i, feature_queue>>
    /\ UNCHANGED <<alert_queue, ocpp_queue, safety_mutex, current_safety_state,
                   current_anomaly_score, session_counter, contactor_pin, ml_last,
                   safety_pc, safety_alert, ocpp_msg, ui_safety_state>>
    /\ UNCHANGED <<relayVars, raceVars, proxyVars, buttonVars, apiVars, bufVars>>

\* the message types ocpp_proxy_receive_message hands over once the proxy's
\* queue exists: one for the case of the switch that writes shared state, one
\* for the others.  (The queue is created by ocpp_proxy_init, which main.c as
\* it stands never calls; until it is called no message arrives, and
\* ocpp_monitor_task does nothing.)
ReceivedMsgTypes == {"START_TRANSACTION", "REMOTE_STOP_TRANSACTION"}

\* ocpp_monitor_task, one message: receive, switch (msg.type), xQueueSend
\* (main.c:198-219)
ocpp_monitor_task ==
    /\ \E t \in ReceivedMsgTypes :
         /\ t = "START_TRANSACTION" => session_counter < MaxSessions
         /\ ocpp_msg' = [type |-> t]
         /\ IF t = "START_TRANSACTION"
            THEN /\ session_counter' = session_counter + 1
                 /\ current_safety_state' = update_safety_state("HANDSHAKE")
            ELSE UNCHANGED <<session_counter, current_safety_state>>
         /\ ocpp_queue' = IF Len(ocpp_queue) < OcppQueueLen
                          THEN Append(ocpp_queue, [type |-> t]) ELSE ocpp_queue
    /\ UNCHANGED <<feature_queue, alert_queue, safety_mutex, current_anomaly_score,
                   contactor_pin, prev_v, prev_i, ml_last, safety_pc, safety_alert,
                   ui_safety_state>>
    /\ UNCHANGED <<relayVars, raceVars, proxyVars, buttonVars, apiVars, bufVars>>

\* one turn of the loop of ml_anomaly_task (main.c:237-299)
ml_anomaly_task ==
    /\ IF feature_queue # <<>>
       THEN LET s == Scoring(Head(feature_queue), Len(alert_queue) < AlertQueueLen)
            IN  /\ feature_queue' = Tail(feature_queue)
                /\ ml_last' = s
                /\ current_anomaly_score' = CombinedScore(s.rule_score, s.ml_score)
                /\ alert_queue' =
                     IF s.sent
                     THEN Append(alert_queue,
                                 [level |-> s.level,
                                  score |-> CombinedScore(s.rule_score, s.ml_score),
                                  session_id |-> session_counter])
                     ELSE alert_queue
       ELSE UNCHANGED <<feature_queue, ml_last, current_anomaly_score, alert_queue>>
    /\ ocpp_queue' = IF ocpp_queue # <<>> THEN Tail(ocpp_queue) ELSE ocpp_queue
    /\ UNCHANGED <<safety_mutex, current_safety_state, session_counter, contactor_pin,
                   prev_v, prev_i, safety_pc, safety_alert, ocpp_msg, ui_safety_state>>
    /\ UNCHANGED <<relayVars, raceVars, proxyVars, buttonVars, apiVars, bufVars>>

\* safety_control_task, xQueueReceive(alert_queue, ...) and xSemaphoreTake
\* (main.c:310-312); no other task ever takes safety_mutex
safety_receive ==
    /\ safety_pc = "receive"
    /\ alert_queue # <<>>
    /\ safety_mutex = "free"
    /\ safety_alert' = Head(alert_queue)
    /\ alert_queue' = Tail(alert_queue)
    /\ safety_mutex' = "safety_control_task"
    /\ safety_pc' = "switch"
    /\ UNCHANGED <<feature_queue, ocpp_queue, current_safety_state,
                   current_anomaly_score, session_counter, contactor_pin, prev_v,
                   prev_i, ml_last, ocpp_msg, ui_safety_state>>
    /\ UNCHANGED <<relayVars, raceVars, proxyVars, buttonVars, apiVars, bufVars>>

\* the switch with the Warning case taken in every state
safety_switch_any_state ==
    /\ safety_pc = "switch"
    /\ IF safety_alert.level = "CRITICAL"
       THEN /\ current_safety_state' = update_safety_state("LOCKDOWN")
            /\ safety_pc' = "open_contactor"
            /\ UNCHANGED safety_mutex
       ELSE /\ current_safety_state' =
                 IF safety_alert.level = "WARNING"
                 THEN update_safety_state("SUSPICIOUS")
                 ELSE current_safety_state
            /\ safety_mutex' = "free"
            /\ safety_pc' = "receive"
    /\ UNCHANGED <<feature_queue, alert_queue, ocpp_queue, current_anomaly_score,
                   session_counter, contactor_pin, prev_v, prev_i, ml_last,
                   safety_alert, ocpp_msg, ui_safety_state>>
    /\ UNCHANGED <<relayVars, raceVars, proxyVars, buttonVars, apiVars, bufVars>>

\* safety_control_task, switch (alert.level) (main.c:314-324): the Warning and
\* default cases run to xSemaphoreGive, the Critical case up to its update of
\* current_safety_state
safety_switch ==
    /\ safety_pc = "switch"
    /\ IF safety_alert.level = "CRITICAL"
       THEN /\ current_safety_state' = update_safety_state("LOCKDOWN")
            /\ safety_pc' = "open_contactor"
            /\ UNCHANGED safety_mutex
       ELSE /\ current_safety_state' =
                 IF safety_alert.level = "WARNING" /\ current_safety_state = "CHARGING"
                 THEN update_safety_state("SUSPICIOUS")
                 ELSE current_safety_state
            /\ safety_mutex' = "free"
            /\ safety_pc' = "receive"
    /\ UNCHANGED <<feature_queue, alert_queue, ocpp_queue, current_anomaly_score,
                   session_counter, contactor_pin, prev_v, prev_i, ml_last,
                   safety_alert, ocpp_msg, ui_safety_state>>
    /\ UNCHANGED <<relayVars, raceVars, proxyVars, buttonVars, apiVars, bufVars>>

\* safety_control_task, gpio_set_level(CONTACTOR_CONTROL_PIN, ...) and
\* xSemaphoreGive (main.c:326-334)
safety_open_contactor ==
    /\ safety_pc = "open_contactor"
    /\ contactor_pin' = ContactorOpenLevel
    /\ safety_mutex' = "free"
    /\ safety_pc' = "receive"
    /\ UNCHANGED <<feature_queue, alert_queue, ocpp_queue, current_safety_state,
                   current_anomaly_score, session_counter, prev_v, prev_i, ml_last,
                   safety_alert, ocpp_msg, ui_safety_state>>
    /\ UNCHANGED <<relayVars, raceVars, proxyVars, buttonVars, apiVars, bufVars>>

\* logging_task, xQueueReceive(feature_queue, ...) then log and free (main.c:369-372)
logging_task ==
    /\ feature_queue # <<>>
    /\ feature_queue' = Tail(feature_queue)
    /\ UNCHANGED <<alert_queue, ocpp_queue, safety_mutex, current_safety_state,
                   current_anomaly_score, session_counter, contactor_pin, prev_v,
                   prev_i, ml_last, safety_pc, safety_alert, ocpp_msg, ui_safety_state>>
    /\ UNCHANGED <<relayVars, raceVars, proxyVars, buttonVars, apiVars, bufVars>>

\* ui_task, one turn: ui_update_display(current_safety_state, ...) and
\* ui_handle_buttons() (main.c:385-391)
ui_task ==
    /\ ui_safety_state' = current_safety_state
    /\ UNCHANGED <<feature_queue, alert_queue, ocpp_queue, safety_mutex,
                   current_safety_state, current_anomaly_score, session_counter,
                   contactor_pin, prev_v, prev_i, ml_last, safety_pc, safety_alert,
                   ocpp_msg>>
    /\ UNCHANGED <<relayVars, raceVars, proxyVars, buttonVars, apiVars, bufVars>>

(***************************************************************************)
(* Arduino/RelayController.h                                               *)
(***************************************************************************)
MAX_CURRENT_THRESHOLD == 35

OVERCURRENT_TIME_MS == 1000

RELAY_DEBOUNCE_MS == 100

FAULT_RESET_TIME_MS == 5000

VOLTAGE_MIN_THRESHOLD == 200

VOLTAGE_MAX_THRESHOLD == 250

RELAY_ACTIVE_LOW == TRUE

HIGH == 1

LOW == 0

RelayStates == {"RELAY_OFF", "RELAY_ON", "RELAY_FAULT", "RELAY_EMERGENCY_STOP"}

SystemStates == {"STATE_IDLE", "STATE_HANDSHAKE", "STATE_CHARGING", "STATE_SUSPICIOUS",
                 "STATE_LOCKDOWN", "STATE_ERROR"}

\* bounds of the relay model: the value of millis() up to which each
\* specification follows the controller, and the faults logged between two
\* resetFaults()
MaxTime == 500

MaxGraceTime == 1400

MaxCooldownTime == 5400

MaxRaceTime == 600

MaxFaults == 7

\* faults logged while checkSafetyLimits is polled over the grace period
MaxLimitFaults == 6

\* faults logged while the debounce window is followed
MaxDebounceFaults == 2

\* the statics of RelayController gathered in one record, so that a method is a
\* function from the record before the call to the record after it
RC ==
    [now |-> now, pin |-> relay_pin, cur |-> _currentState, status |-> _status,
     estop |-> _emergencyStopActive, override |-> _manualOverrideEnabled,
     lsc |-> _lastStateChange, ocStart |-> _overcurrentStartTime,
     lastEs |-> _lastEmergencyStopTime, ocDet |-> _overcurrentDetected,
     hist |-> _faultHistory]

\* bool pinState = (state == RELAY_ON) ? !RELAY_ACTIVE_LOW : RELAY_ACTIVE_LOW
PinState(state) ==
    IF state = "RELAY_ON"
    THEN (IF ~RELAY_ACTIVE_LOW THEN HIGH ELSE LOW)
    ELSE (IF RELAY_ACTIVE_LOW THEN HIGH ELSE LOW)

\* RELAY_ACTIVE_LOW ? HIGH : LOW, the level init() and emergencyStop() write
OffLevel == IF RELAY_ACTIVE_LOW THEN HIGH ELSE LOW

\* digitalWrite(RELAY_CONTROL_PIN, state); delay(RELAY_DEBOUNCE_MS);
_writeRelayPin(r, level) == [r EXCEPT !.pin = level, !.now = @ + RELAY_DEBOUNCE_MS]

\* the record keeps the reason; the millis() prefix of the text line is left out
_logFault(r, faultReason) ==
    [r EXCEPT !.status.faultCount = @ + 1,
              !.status.lastFaultReason = faultReason,
              !.hist = Append(@, faultReason)]

\* the interlocks without the fault-count limit
_checkSafetyInterlocksNoFaultLimit(r) == ~r.estop

_checkSafetyInterlocks(r) ==
    IF r.estop THEN FALSE
    ELSE IF r.status.faultCount > 5 THEN FALSE
    ELSE TRUE

\* the check without the debounce window
_canChangeStateNoDebounce(r, newState) ==
    IF r.cur = newState THEN TRUE
    ELSE IF r.override THEN TRUE
    ELSE IF ~_checkSafetyInterlocks(r) THEN FALSE
    ELSE TRUE

_canChangeState(r, newState) ==
    IF r.cur = newState THEN TRUE
    ELSE IF r.now - r.lsc < RELAY_DEBOUNCE_MS THEN FALSE
    ELSE IF r.override THEN TRUE
    ELSE IF ~_checkSafetyInterlocks(r) THEN FALSE
    ELSE TRUE

\* the result without the interlock check that follows _canChangeState
setRelayStateResultCanChangeOnly(r, state) ==
    IF ~_canChangeState(r, state) THEN FALSE
    ELSE IF r.estop /\ state = "RELAY_ON" THEN FALSE
    ELSE TRUE

\* the value setRelayState(state) returns (init() has run)
setRelayStateResult(r, state) ==
    IF ~_canChangeState(r, state) THEN FALSE
    ELSE IF ~_checkSafetyInterlocks(r) THEN FALSE
    ELSE IF r.estop /\ state = "RELAY_ON" THEN FALSE
    ELSE TRUE

\* the statements of setRelayState after its checks (RelayController.h:183-202)
setRelayStateApply(r, state) ==
    LET r1 == _writeRelayPin(r, PinState(state))
        r2 == [r1 EXCEPT !.cur = state, !.lsc = r1.now,
                         !.status.state = state, !.status.lastStateChange = r1.now]
    IN  [r2 EXCEPT !.now = @ + RELAY_DEBOUNCE_MS]

setRelayStateRC(r, state) ==
    IF setRelayStateResult(r, state) THEN setRelayStateApply(r, state) ELSE r

\* a stop that sets the flag and logs the fault, and leaves pin and state alone
emergencyStopFlagOnly(r) ==
    _logFault([r EXCEPT !.estop = TRUE, !.lastEs = r.now,
                        !.status.emergencyStopActive = TRUE],
              "Emergency stop activated")

emergencyStopRC(r) ==
    LET r1 == _writeRelayPin(r, OffLevel)
        r2 == [r1 EXCEPT !.cur = "RELAY_EMERGENCY_STOP", !.estop = TRUE,
                         !.lastEs = r1.now,
                         !.status.state = "RELAY_EMERGENCY_STOP",
                         !.status.emergencyStopActive = TRUE,
                         !.status.lastStateChange = r1.now]
    IN  _logFault(r2, "Emergency stop activated")

\* a reset that leaves out the cooldown and the interlocks
resetEmergencyStopUnchecked(r) == TRUE

resetEmergencyStopResult(r) ==
    IF ~r.estop THEN TRUE
    ELSE IF r.now - r.lastEs < FAULT_RESET_TIME_MS THEN FALSE
    ELSE IF ~_checkSafetyInterlocks(r) THEN FALSE
    ELSE TRUE

resetEmergencyStopRC(r) ==
    IF r.estop /\ resetEmergencyStopResult(r)
    THEN [r EXCEPT !.estop = FALSE, !.status.emergencyStopActive = FALSE]
    ELSE r

\* the grace period compared with >= instead of >
_handleOvercurrentAtGrace(r, current) ==
    LET r1 == IF ~r.ocDet THEN [r EXCEPT !.ocDet = TRUE, !.ocStart = r.now] ELSE r
    IN  IF r1.now - r1.ocStart >= OVERCURRENT_TIME_MS
        THEN _logFault(emergencyStopRC(r1), "Overcurrent protection triggered")
        ELSE r1

_handleOvercurrent(r, current) ==
    LET r1 == IF ~r.ocDet THEN [r EXCEPT !.ocDet = TRUE, !.ocStart = r.now] ELSE r
    IN  IF r1.now - r1.ocStart > OVERCURRENT_TIME_MS
        THEN _logFault(emergencyStopRC(r1), "Overcurrent protection triggered")
        ELSE r1

_handleUndervoltage(r, voltage) == _logFault(r, "Undervoltage")

\* an overvoltage that is logged like an undervoltage, without the stop
_handleOvervoltageLogOnly(r, voltage) == _logFault(r, "Overvoltage protection triggered")

_handleOvervoltage(r, voltage) ==
    _logFault(emergencyStopRC(r), "Overvoltage protection triggered")

\* _safetyLimitsEnabled is true and never written
checkSafetyLimitsRC(r, current, voltage) ==
    LET r1 == IF current > MAX_CURRENT_THRESHOLD
              THEN _handleOvercurrent(r, current)
              ELSE [r EXCEPT !.ocDet = FALSE, !.ocStart = 0]
        r2 == IF voltage < VOLTAGE_MIN_THRESHOLD THEN _handleUndervoltage(r1, voltage) ELSE r1
    IN  IF voltage > VOLTAGE_MAX_THRESHOLD THEN _handleOvervoltage(r2, voltage) ELSE r2

\* return (_currentState == RELAY_ON): no feedback pin is read
_readRelayFeedback(r) == (r.cur = "RELAY_ON")

_updateRelayStatus(r) ==
    LET expectedState == (r.cur = "RELAY_ON")
        actualState == _readRelayFeedback(r)
        r1 == IF expectedState # actualState
              THEN _logFault([r EXCEPT !.status.isHealthy = FALSE], "Relay feedback mismatch")
              ELSE [r EXCEPT !.status.isHealthy = TRUE]
    IN  [r1 EXCEPT !.status.emergencyStopActive = r.estop,
                   !.status.manualOverride = r.override]

handleEmergencyStopButtonRC(r, level) ==
    IF level = LOW /\ ~r.estop THEN emergencyStopRC(r) ELSE r

resetFaultsRC(r) ==
    [r EXCEPT !.status.faultCount = 0, !.status.lastFaultReason = "", !.hist = <<>>]

enableManualOverrideRC(r, enable) ==
    [r EXCEPT !.override = enable, !.status.manualOverride = enable]

(***************************************************************************)
(* RelayController: one action per public method, run to completion.       *)
(***************************************************************************)
\* the statics after init() (RelayController.h:128-158), which ends in
\* _writeRelayPin and so at millis() = RELAY_DEBOUNCE_MS when it starts at 0.
\* currentState is the sketch's global, STATE_IDLE being the enumerator 0.
RelayInit ==
    /\ now = RELAY_DEBOUNCE_MS
    /\ relay_pin = OffLevel
    /\ _currentState = "RELAY_OFF"
    /\ _status = [state |-> "RELAY_OFF", isHealthy |-> TRUE, emergencyStopActive |-> FALSE,
                  manualOverride |-> FALSE, lastStateChange |-> RELAY_DEBOUNCE_MS,
                  faultCount |-> 0, lastFaultReason |-> ""]
    /\ _emergencyStopActive = FALSE
    /\ _manualOverrideEnabled = FALSE
    /\ _lastStateChange = RELAY_DEBOUNCE_MS
    /\ _overcurrentStartTime = 0
    /\ _lastEmergencyStopTime = 0
    /\ _overcurrentDetected = FALSE
    /\ _faultHistory = <<>>
    /\ currentState = "STATE_IDLE"
    /\ last_call = [op |-> "init", ok |-> TRUE]

RaceInit ==
    /\ set_pc = "idle"
    /\ stop_pc = "idle"

\* pinMode(EMERGENCY_STOP_PIN, INPUT_PULLUP): the button is released and the
\* input reads HIGH
ButtonInit ==
    /\ emergency_stop_pin = HIGH
    /\ emergency_stop_since = 0

\* the statics take the values of the record
Statics(r) ==
    /\ r.status.faultCount <= MaxFaults
    /\ now' = r.now
    /\ relay_pin' = r.pin
    /\ _currentState' = r.cur
    /\ _status' = r.status
    /\ _emergencyStopActive' = r.estop
    /\ _manualOverrideEnabled' = r.override
    /\ _lastStateChange' = r.lsc
    /\ _overcurrentStartTime' = r.ocStart
    /\ _lastEmergencyStopTime' = r.lastEs
    /\ _overcurrentDetected' = r.ocDet
    /\ _faultHistory' = r.hist

\* a method called from the sketch's loop returns with the statics r and the
\* result ok
Commit(r, op, ok) ==
    /\ Statics(r)
    /\ last_call' = [op |-> op, ok |-> ok]
    /\ UNCHANGED currentState
    /\ UNCHANGED <<pipeVars, raceVars, proxyVars, buttonVars, apiVars, bufVars>>

setRelayStateCall(state) ==
    Commit(setRelayStateRC(RC, state), "setRelayState", setRelayStateResult(RC, state))

\* setRelayOn() and setRelayOff()
RequestedStates == {"RELAY_ON", "RELAY_OFF"}

setRelayState == \E state \in RequestedStates : setRelayStateCall(state)

emergencyStop == Commit(emergencyStopRC(RC), "emergencyStop", TRUE)

resetEmergencyStop ==
    Commit(resetEmergencyStopRC(RC), "resetEmergencyStop", resetEmergencyStopResult(RC))

checkSafetyLimitsCall(current, voltage) ==
    Commit(checkSafetyLimitsRC(RC, current, voltage), "checkSafetyLimits", TRUE)

\* the measurements checkSafetyLimits is polled with (amperes, volts)
Currents == {35, 36}

Voltages == {190, 250, 251}

checkSafetyLimits ==
    \E current \in Currents, voltage \in Voltages : checkSafetyLimitsCall(current, voltage)

handleEmergencyStopButton ==
    Commit(handleEmergencyStopButtonRC(RC, emergency_stop_pin),
           "handleEmergencyStopButton", TRUE)

\* the button is pressed (the input goes LOW) or released, or the input
\* chatters, while no method runs
EmergencyStopInput ==
    /\ emergency_stop_pin' = (IF emergency_stop_pin = LOW THEN HIGH ELSE LOW)
    /\ emergency_stop_since' = now
    /\ UNCHANGED <<pipeVars, relayVars, raceVars, proxyVars, apiVars, bufVars>>

updateStatus == Commit(_updateRelayStatus(RC), "updateStatus", TRUE)

resetFaults == Commit(resetFaultsRC(RC), "resetFaults", TRUE)

enableManualOverride ==
    \E enable \in BOOLEAN :
        Commit(enableManualOverrideRC(RC, enable), "enableManualOverride", TRUE)

\* updateSystemState(newState) is declared in EV_Secure_Config.h and defined in
\* the sketch: the state machine of the specification, here free to enter any
\* of its states
updateSystemState ==
    \E newState \in SystemStates :
        /\ currentState' = newState
        /\ last_call' = [op |-> "updateSystemState", ok |-> TRUE]
        /\ UNCHANGED <<now, relay_pin, _currentState, _status, _emergencyStopActive,
                       _manualOverrideEnabled, _lastStateChange, _overcurrentStartTime,
                       _lastEmergencyStopTime, _overcurrentDetected, _faultHistory>>
        /\ UNCHANGED <<pipeVars, raceVars, proxyVars, buttonVars, apiVars, bufVars>>

\* the instants at which a comparison of millis() with a stored time changes
\* its value, and the millisecond before
TimerInstants ==
    {_lastStateChange + RELAY_DEBOUNCE_MS - 1, _lastStateChange + RELAY_DEBOUNCE_MS}
    \cup (IF _overcurrentDetected
          THEN {_overcurrentStartTime + OVERCURRENT_TIME_MS - 1,
                _overcurrentStartTime + OVERCURRENT_TIME_MS,
                _overcurrentStartTime + OVERCURRENT_TIME_MS + 1}
          ELSE {})
    \cup (IF _emergencyStopActive
          THEN {_lastEmergencyStopTime + FAULT_RESET_TIME_MS - 1,
                _lastEmergencyStopTime + FAULT_RESET_TIME_MS}
          ELSE {})

\* millis() advances while no method runs
Tick ==
    \E t \in TimerInstants :
        /\ t > now
        /\ Commit([RC EXCEPT !.now = t], "tick", TRUE)

\* Op, as long as it returns by the instant horizon
Until(horizon, Op) == Op /\ now' <= horizon

\* Op, as long as it returns by the instant horizon with at most faults logged
UntilFaults(horizon, faults, Op) ==
    Op /\ now' <= horizon /\ _status'.faultCount <= faults

(***************************************************************************)
(* setRelayState(RELAY_ON) and emergencyStop() called from two tasks: each *)
(* call is cut where it passes a delay() or has finished its checks, the   *)
(* places at which the other task can run in between.                      *)
(***************************************************************************)
\* the checks of setRelayState (RelayController.h:160-181)
set_check ==
    /\ set_pc = "idle"
    /\ set_pc' = IF setRelayStateResult(RC, "RELAY_ON") THEN "write" ELSE "done"
    /\ last_call' = IF setRelayStateResult(RC, "RELAY_ON") THEN last_call
                    ELSE [op |-> "setRelayState", ok |-> FALSE]
    /\ UNCHANGED <<now, relay_pin, _currentState, _status, _emergencyStopActive,
                   _manualOverrideEnabled, _lastStateChange, _overcurrentStartTime,
                   _lastEmergencyStopTime, _overcurrentDetected, _faultHistory,
                   currentState, stop_pc>>
    /\ UNCHANGED <<pipeVars, proxyVars, buttonVars, apiVars, bufVars>>

\* _writeRelayPin(pinState) (RelayController.h:184-185)
set_write ==
    /\ set_pc = "write"
    /\ Statics(_writeRelayPin(RC, PinState("RELAY_ON")))
    /\ set_pc' = "update"
    /\ UNCHANGED <<currentState, last_call, stop_pc>>
    /\ UNCHANGED <<pipeVars, proxyVars, buttonVars, apiVars, bufVars>>

\* the state tracking, _debounceRelay() and return true (RelayController.h:187-202)
set_update ==
    /\ set_pc = "update"
    /\ Statics([RC EXCEPT !.cur = "RELAY_ON", !.lsc = now,
                          !.status.state = "RELAY_ON", !.status.lastStateChange = now,
                          !.now = @ + RELAY_DEBOUNCE_MS])
    /\ set_pc' = "done"
    /\ last_call' = [op |-> "setRelayState", ok |-> TRUE]
    /\ UNCHANGED <<currentState, stop_pc>>
    /\ UNCHANGED <<pipeVars, proxyVars, buttonVars, apiVars, bufVars>>

\* _writeRelayPin(RELAY_ACTIVE_LOW ? HIGH : LOW) (RelayController.h:229-230)
stop_write ==
    /\ stop_pc = "idle"
    /\ Statics(_writeRelayPin(RC, OffLevel))
    /\ stop_pc' = "update"
    /\ UNCHANGED <<currentState, last_call, set_pc>>
    /\ UNCHANGED <<pipeVars, proxyVars, buttonVars, apiVars, bufVars>>

\* the rest of emergencyStop() (RelayController.h:231-243)
stop_update ==
    /\ stop_pc = "update"
    /\ Statics(_logFault([RC EXCEPT !.cur = "RELAY_EMERGENCY_STOP", !.estop = TRUE,
                                    !.lastEs = now,
                                    !.status.state = "RELAY_EMERGENCY_STOP",
                                    !.status.emergencyStopActive = TRUE,
                                    !.status.lastStateChange = now],
                         "Emergency stop activated"))
    /\ stop_pc' = "done"
    /\ UNCHANGED <<currentState, last_call, set_pc>>
    /\ UNCHANGED <<pipeVars, proxyVars, buttonVars, apiVars, bufVars>>

\* both calls have returned: the two tasks call again
race_again ==
    /\ set_pc = "done"
    /\ stop_pc = "done"
    /\ set_pc' = "idle"
    /\ stop_pc' = "idle"
    /\ UNCHANGED <<relayVars, pipeVars, proxyVars, buttonVars, apiVars, bufVars>>

(***************************************************************************)
(* ocpp_proxy.c: the WebSocket event handler and the message queue.  A     *)
(* frame is what cJSON makes of the payload: whether it parses, its        *)
(* "messageTypeId" and its "messageId" (NoValue when the item is missing   *)
(* or is not a number).  session_id and payload are copied and not used.   *)
(***************************************************************************)
\* cJSON_GetObjectItem() == NULL, or an item that is not a number
NoValue == -1

\* bounds: slots of message_queue explored (the proxy creates 20), highest
\* messageId, highest value of a metrics counter
ProxyQueueLen == 1

MaxSequence == 2

MaxCount == 1

\* messageTypeId values: one per type the switch assigns, and one it does not know
TypeIds == {2, 3, 4, 5}

SeqNumbers == 1..MaxSequence

Frames ==
    [json : {TRUE}, type : TypeIds \cup {NoValue}, id : SeqNumbers \cup {NoValue}]
    \cup {[json |-> FALSE, type |-> NoValue, id |-> NoValue]}

\* switch (msg_type->valueint)
MsgTypeOf(id) ==
    IF id \in {2} \cup {8 + 5 * k : k \in 0..8} THEN "START_TRANSACTION"
    ELSE IF id \in {3} \cup {9 + 5 * k : k \in 0..8} THEN "REMOTE_STOP_TRANSACTION"
    ELSE IF id \in {4} \cup {11 + 5 * k : k \in 0..7} THEN "METER_VALUES"
    ELSE "UNKNOWN"

\* ocpp_message_t msg = {0}: the enumerator 0 of ocpp_msg_type_t
ZeroMsgType == "START_TRANSACTION"

\* what cJSON_GetObjectItem(json, "messageId") can deliver.  For a payload
\* that parsed, json has been passed to cJSON_Delete before this lookup: the
\* read is of freed memory, and finds the item still there, no item, or any
\* number.  For a payload that did not parse json is NULL and so is the item.
MessageIdLookups(frame) ==
    IF frame.json THEN {frame.id, NoValue} \cup SeqNumbers ELSE {NoValue}

ProxyInit ==
    /\ message_queue = [created |-> FALSE, items |-> <<>>]
    /\ message_sequence = 0
    /\ current_metrics = [remote_stop_count |-> 0, malformed_count |-> 0,
                          out_of_sequence_count |-> 0]
    /\ ws_frame = [json |-> FALSE, type |-> NoValue, id |-> NoValue]
    /\ ws_msg = [type |-> ZeroMsgType, stamped |-> FALSE, malformed |-> FALSE,
                 out_of_sequence |-> FALSE]

\* ocpp_proxy_init(): xQueueCreate and memset of the metrics
ocpp_proxy_init ==
    /\ ~message_queue.created
    /\ message_queue' = [created |-> TRUE, items |-> <<>>]
    /\ current_metrics' = [remote_stop_count |-> 0, malformed_count |-> 0,
                           out_of_sequence_count |-> 0]
    /\ UNCHANGED <<message_sequence, ws_frame, ws_msg>>
    /\ UNCHANGED <<pipeVars, relayVars, raceVars, buttonVars, apiVars, bufVars>>

\* the handler with a send that makes room by discarding the oldest message
HandleDataOverwrite(frame, msg_id) ==
    LET typed == frame.json /\ frame.type # NoValue
        msg   == [type |-> IF typed THEN MsgTypeOf(frame.type) ELSE ZeroMsgType,
                  stamped |-> TRUE, malformed |-> ~typed,
                  out_of_sequence |-> msg_id # NoValue /\ msg_id # message_sequence + 1]
    IN  /\ ws_frame' = frame
        /\ ws_msg' = msg
        /\ current_metrics' =
              [remote_stop_count |->
                   current_metrics.remote_stop_count
                   + (IF msg.type = "REMOTE_STOP_TRANSACTION" THEN 1 ELSE 0),
               malformed_count |->
                   current_metrics.malformed_count + (IF ~typed THEN 1 ELSE 0),
               out_of_sequence_count |->
                   current_metrics.out_of_sequence_count
                   + (IF msg.out_of_sequence THEN 1 ELSE 0)]
        /\ message_sequence' = IF msg_id # NoValue THEN msg_id ELSE message_sequence
        /\ message_queue' =
              IF ~message_queue.created THEN message_queue
              ELSE IF Len(message_queue.items) < ProxyQueueLen
              THEN [message_queue EXCEPT !.items = Append(@, msg)]
              ELSE [message_queue EXCEPT !.items = Append(Tail(@), msg)]

\* case WEBSOCKET_EVENT_DATA with data_len > 0, on frame, the later lookup of
\* "messageId" delivering msg_id
HandleData(frame, msg_id) ==
    LET typed     == frame.json /\ frame.type # NoValue
        type      == IF typed THEN MsgTypeOf(frame.type) ELSE ZeroMsgType
        counted   == typed /\ MsgTypeOf(frame.type) = "REMOTE_STOP_TRANSACTION"
        tracked   == msg_id # NoValue
        out_of_sq == tracked /\ msg_id # message_sequence + 1
        msg       == [type |-> type, stamped |-> TRUE, malformed |-> ~typed,
                      out_of_sequence |-> out_of_sq]
    IN  /\ ws_frame' = frame
        /\ ws_msg' = msg
        /\ current_metrics' =
              [remote_stop_count |->
                   current_metrics.remote_stop_count + (IF counted THEN 1 ELSE 0),
               malformed_count |->
                   current_metrics.malformed_count + (IF ~typed THEN 1 ELSE 0),
               out_of_sequence_count |->
                   current_metrics.out_of_sequence_count + (IF out_of_sq THEN 1 ELSE 0)]
        /\ message_sequence' = IF tracked THEN msg_id ELSE message_sequence
        /\ message_queue' =
              IF message_queue.created /\ Len(message_queue.items) < ProxyQueueLen
              THEN [message_queue EXCEPT !.items = Append(@, msg)]
              ELSE message_queue

\* ocpp_websocket_event_handler on a data frame (ocpp_proxy.c:37-252)
ocpp_websocket_event_handler ==
    /\ \E frame \in Frames :
         \E msg_id \in MessageIdLookups(frame) : HandleData(frame, msg_id)
    /\ current_metrics'.remote_stop_count <= MaxCount
    /\ current_metrics'.malformed_count <= MaxCount
    /\ current_metrics'.out_of_sequence_count <= MaxCount
    /\ UNCHANGED <<pipeVars, relayVars, raceVars, buttonVars, apiVars, bufVars>>

\* ocpp_proxy_receive_message() returning ESP_OK: a message is taken
ocpp_proxy_receive_message ==
    /\ message_queue.created
    /\ message_queue.items # <<>>
    /\ message_queue' = [message_queue EXCEPT !.items = Tail(@)]
    /\ UNCHANGED <<message_sequence, current_metrics, ws_frame, ws_msg>>
    /\ UNCHANGED <<pipeVars, relayVars, raceVars, buttonVars, apiVars, bufVars>>

(***************************************************************************)
(* Arduino/APIManager.h                                                    *)
(***************************************************************************)
MAX_REQUESTS_PER_MINUTE == 10

RETRY_ATTEMPTS == 3

RETRY_DELAY_MS == 1000

\* the length of the rate-limit window in _checkRateLimit, in ms
RateWindowMs == 60000

\* bounds of the API model: the value of millis() up to which calls are
\* followed, the value up to which _retryRequest is entered, and the HTTP
\* requests counted in one window
MaxApiTime == 60101

MaxRetryTime == 9100

MaxWindowRequests == 12

\* what HTTPClient returns: a connection error, a success, a server error
HttpCodes == {-1, 200, 500}

\* the statics of APIManager as defined at APIManager.h:135-141, with the
\* value init() left in _initialized
ApiStatics(initialized) ==
    /\ _initialized = initialized
    /\ _requestCount = 0
    /\ _requestWindowStart = 0
    /\ window_requests = 0
    /\ api_call = [op |-> "none", ok |-> FALSE, sent |-> FALSE]
    /\ retry_pc = "idle"
    /\ attempt = 0
    /\ retry_delays = <<>>
    /\ retry_result = FALSE

ApiInit == ApiStatics(FALSE)

\* everything of the relay group but millis()
relayStatics == <<relay_pin, _currentState, _status, _emergencyStopActive,
                  _manualOverrideEnabled, _lastStateChange, _overcurrentStartTime,
                  _lastEmergencyStopTime, _overcurrentDetected, _faultHistory,
                  currentState, last_call>>

\* what an APIManager action leaves alone besides its own statics
ApiFrame == UNCHANGED <<pipeVars, relayStatics, raceVars, proxyVars, buttonVars, bufVars>>

\* makeRequest: without _initialized it returns at once with success false;
\* otherwise one HTTP request is sent and success is a 2xx status code
RequestSent == _initialized

RequestSuccess(httpCode) == _initialized /\ httpCode >= 200 /\ httpCode < 300

\* _checkRateLimit: the count and window start it leaves, and its result
_checkRateLimit ==
    LET reset == now - _requestWindowStart > RateWindowMs
        count == IF reset THEN 0 ELSE _requestCount
    IN  [count |-> count,
         start |-> IF reset THEN now ELSE _requestWindowStart,
         reset |-> reset,
         ok    |-> count < MAX_REQUESTS_PER_MINUTE]

\* a method that returns before _checkRateLimit and makeRequest
ApiReturnEarly(op) ==
    /\ api_call' = [op |-> op, ok |-> FALSE, sent |-> FALSE]
    /\ UNCHANGED <<_initialized, _requestCount, _requestWindowStart, window_requests>>

\* a method refused by _checkRateLimit, which may have started a new window
ApiRefused(op, rl) ==
    /\ api_call' = [op |-> op, ok |-> FALSE, sent |-> FALSE]
    /\ _requestCount' = rl.count
    /\ _requestWindowStart' = rl.start
    /\ window_requests' = IF rl.reset THEN 0 ELSE window_requests
    /\ UNCHANGED _initialized

\* a method that passed _checkRateLimit and called makeRequest; counted says
\* whether _updateRateLimit ran
ApiRequested(op, rl, ok, counted) ==
    /\ api_call' = [op |-> op, ok |-> ok, sent |-> TRUE]
    /\ _requestCount' = IF counted THEN rl.count + 1 ELSE rl.count
    /\ _requestWindowStart' = rl.start
    /\ window_requests' = (IF rl.reset THEN 0 ELSE window_requests) + 1
    /\ window_requests' <= MaxWindowRequests
    /\ UNCHANGED _initialized

\* init(): checkConnection() returns false while _initialized is false, so the
\* flag is left as it was
api_init ==
    /\ api_call' = [op |-> "init", ok |-> _initialized, sent |-> FALSE]
    /\ UNCHANGED <<_initialized, _requestCount, _requestWindowStart, window_requests,
                   retry_pc, attempt, retry_delays, retry_result, now>>
    /\ ApiFrame

sendData ==
    /\ IF ~_initialized THEN ApiReturnEarly("sendData")
       ELSE IF ~_checkRateLimit.ok THEN ApiRefused("sendData", _checkRateLimit)
       ELSE \E httpCode \in HttpCodes :
                ApiRequested("sendData", _checkRateLimit,
                             RequestSuccess(httpCode), RequestSuccess(httpCode))
    /\ UNCHANGED <<retry_pc, attempt, retry_delays, retry_result, now>>
    /\ ApiFrame

\* the request is counted when it succeeded with a body that is not empty
getCommand ==
    /\ IF ~_initialized THEN ApiReturnEarly("getCommand")
       ELSE IF ~_checkRateLimit.ok THEN ApiRefused("getCommand", _checkRateLimit)
       ELSE \E httpCode \in HttpCodes, empty \in BOOLEAN :
                ApiRequested("getCommand", _checkRateLimit,
                             RequestSuccess(httpCode) /\ ~empty,
                             RequestSuccess(httpCode) /\ ~empty)
    /\ UNCHANGED <<retry_pc, attempt, retry_delays, retry_result, now>>
    /\ ApiFrame

\* sendAlert calls neither _checkRateLimit nor _updateRateLimit
sendAlert ==
    /\ IF ~_initialized THEN ApiReturnEarly("sendAlert")
       ELSE \E httpCode \in HttpCodes :
                /\ api_call' = [op |-> "sendAlert", ok |-> RequestSuccess(httpCode),
                                sent |-> TRUE]
                /\ window_requests' = window_requests + 1
                /\ window_requests' <= MaxWindowRequests
                /\ UNCHANGED <<_initialized, _requestCount, _requestWindowStart>>
    /\ UNCHANGED <<retry_pc, attempt, retry_delays, retry_result, now>>
    /\ ApiFrame

\* resetErrorCount(): _requestCount = 0; _lastError = ""
resetErrorCount ==
    /\ _requestCount' = 0
    /\ api_call' = [op |-> "resetErrorCount", ok |-> TRUE, sent |-> FALSE]
    /\ UNCHANGED <<_initialized, _requestWindowStart, window_requests,
                   retry_pc, attempt, retry_delays, retry_result, now>>
    /\ ApiFrame

\* millis() advances to the end of the rate-limit window and the ms after
ApiTick ==
    /\ \E t \in {_requestWindowStart + RateWindowMs, _requestWindowStart + RateWindowMs + 1} :
          t > now /\ now' = t
    /\ UNCHANGED apiVars
    /\ ApiFrame

\* _retryRequest, one step per statement of the loop.  It is entered:
\* attempt = 0
retry_enter ==
    /\ retry_pc \in {"idle", "done"}
    /\ now <= MaxRetryTime
    /\ retry_pc' = "request"
    /\ attempt' = 0
    /\ retry_delays' = <<>>
    /\ retry_result' = FALSE
    /\ UNCHANGED <<_initialized, _requestCount, _requestWindowStart, window_requests,
                   api_call, now>>
    /\ ApiFrame

\* the loop test and then response = makeRequest(...); return true on success
retry_request ==
    /\ retry_pc = "request"
    /\ IF attempt < RETRY_ATTEMPTS
       THEN \E httpCode \in HttpCodes :
                /\ api_call' = [op |-> "makeRequest", ok |-> RequestSuccess(httpCode),
                                sent |-> RequestSent]
                /\ IF RequestSuccess(httpCode)
                   THEN retry_pc' = "done" /\ retry_result' = TRUE
                   ELSE retry_pc' = "delay" /\ retry_result' = FALSE
                /\ UNCHANGED attempt
       ELSE /\ retry_pc' = "done"
            /\ retry_result' = FALSE
            /\ UNCHANGED <<api_call, attempt>>
    /\ UNCHANGED <<_initialized, _requestCount, _requestWindowStart, window_requests,
                   retry_delays, now>>
    /\ ApiFrame

\* the same delay after every attempt
RetryDelayConstant(k) == RETRY_DELAY_MS

\* delay(RETRY_DELAY_MS * (attempt + 1))
RetryDelay(k) == RETRY_DELAY_MS * (k + 1)

\* if (attempt < RETRY_ATTEMPTS - 1) delay(...); then attempt++
retry_delay ==
    /\ retry_pc = "delay"
    /\ IF attempt < RETRY_ATTEMPTS - 1
       THEN /\ now' = now + RetryDelay(attempt)
            /\ retry_delays' = Append(retry_delays, RetryDelay(attempt))
       ELSE UNCHANGED <<now, retry_delays>>
    /\ attempt' = attempt + 1
    /\ retry_pc' = "request"
    /\ UNCHANGED <<_initialized, _requestCount, _requestWindowStart, window_requests,
                   api_call, retry_result>>
    /\ ApiFrame

(***************************************************************************)
(* main.c: the buffers power_sense_task allocates and hands over through   *)
(* feature_queue, one step per call that touches a buffer.                 *)
(***************************************************************************)
\* the allocations followed
MaxAllocs == 3

Buffers == 1..MaxAllocs

BufInit ==
    /\ heap = [b \in Buffers |-> [state |-> "unused", frees |-> 0, by |-> "none"]]
    /\ ptr_queue = <<>>
    /\ sense_pc = "sample"
    /\ sense_ptr = NoValue
    /\ score_pc = "receive"
    /\ score_ptr = NoValue
    /\ log_pc = "receive"
    /\ log_ptr = NoValue
    /\ read_after_free = FALSE

BufFrame == UNCHANGED <<pipeVars, relayVars, raceVars, proxyVars, buttonVars, apiVars>>

\* memcpy on the NULL an exhausted heap returns: the store traps and the
\* panic handler stops every task
Panicked == sense_pc = "panic"

\* free(ptr) by task
Free(ptr, task) ==
    heap' = [heap EXCEPT ![ptr] = [state |-> "freed", frees |-> @.frees + 1, by |-> task]]

\* *ptr is read
Read(ptr) == read_after_free' = (read_after_free \/ heap[ptr].state # "allocated")

\* malloc and memcpy (main.c:168-170): a buffer not handed out before, or NULL
sense_malloc ==
    /\ ~Panicked
    /\ sense_pc = "sample"
    /\ \/ \E b \in Buffers :
            /\ heap[b].state = "unused"
            /\ \A c \in Buffers : c < b => heap[c].state # "unused"
            /\ heap' = [heap EXCEPT ![b].state = "allocated"]
            /\ sense_ptr' = b
            /\ sense_pc' = "send"
       \/ /\ sense_pc' = "panic"
          /\ UNCHANGED <<heap, sense_ptr>>
    /\ UNCHANGED <<ptr_queue, score_pc, score_ptr, log_pc, log_ptr, read_after_free>>
    /\ BufFrame

\* the pointer is queued and the buffer freed all the same
sense_send_and_free ==
    /\ ~Panicked
    /\ sense_pc = "send"
    /\ ptr_queue' = IF Len(ptr_queue) < FeatureQueueLen
                     THEN Append(ptr_queue, sense_ptr) ELSE ptr_queue
    /\ sense_pc' = "free"
    /\ UNCHANGED <<heap, sense_ptr, score_pc, score_ptr, log_pc, log_ptr, read_after_free>>
    /\ BufFrame

\* xQueueSend(feature_queue, &feature_ptr, 0) (main.c:173)
sense_send ==
    /\ ~Panicked
    /\ sense_pc = "send"
    /\ IF Len(ptr_queue) < FeatureQueueLen
       THEN /\ ptr_queue' = Append(ptr_queue, sense_ptr)
            /\ sense_pc' = "sample"
       ELSE /\ sense_pc' = "free"
            /\ UNCHANGED ptr_queue
    /\ UNCHANGED <<heap, sense_ptr, score_pc, score_ptr, log_pc, log_ptr, read_after_free>>
    /\ BufFrame

\* free(feature_ptr) of the sample that was dropped (main.c:175)
sense_free ==
    /\ ~Panicked
    /\ sense_pc = "free"
    /\ Free(sense_ptr, "power_sense_task")
    /\ sense_pc' = "sample"
    /\ UNCHANGED <<ptr_queue, sense_ptr, score_pc, score_ptr, log_pc, log_ptr, read_after_free>>
    /\ BufFrame

\* xQueueReceive(feature_queue, &feature_ptr, ...) in ml_anomaly_task (main.c:242)
score_receive ==
    /\ ~Panicked
    /\ score_pc = "receive"
    /\ ptr_queue # <<>>
    /\ score_ptr' = Head(ptr_queue)
    /\ ptr_queue' = Tail(ptr_queue)
    /\ score_pc' = "score"
    /\ UNCHANGED <<heap, sense_pc, sense_ptr, log_pc, log_ptr, read_after_free>>
    /\ BufFrame

\* tflite_micro_inference(feature_ptr, ...) and the rules on feature_ptr->...
\* (main.c:245-268)
score_read ==
    /\ ~Panicked
    /\ score_pc = "score"
    /\ Read(score_ptr)
    /\ score_pc' = "free"
    /\ UNCHANGED <<heap, ptr_queue, sense_pc, sense_ptr, score_ptr, log_pc, log_ptr>>
    /\ BufFrame

\* free(feature_ptr) (main.c:290)
score_free ==
    /\ ~Panicked
    /\ score_pc = "free"
    /\ Free(score_ptr, "ml_anomaly_task")
    /\ score_pc' = "receive"
    /\ UNCHANGED <<ptr_queue, sense_pc, sense_ptr, score_ptr, log_pc, log_ptr,
                   read_after_free>>
    /\ BufFrame

\* xQueueReceive(feature_queue, &feature_ptr, ...) in logging_task (main.c:369)
log_receive ==
    /\ ~Panicked
    /\ log_pc = "receive"
    /\ ptr_queue # <<>>
    /\ log_ptr' = Head(ptr_queue)
    /\ ptr_queue' = Tail(ptr_queue)
    /\ log_pc' = "log"
    /\ UNCHANGED <<heap, sense_pc, sense_ptr, score_pc, score_ptr, read_after_free>>
    /\ BufFrame

\* sdlogger_log_feature(feature_ptr) (main.c:370)
log_read ==
    /\ ~Panicked
    /\ log_pc = "log"
    /\ Read(log_ptr)
    /\ log_pc' = "free"
    /\ UNCHANGED <<heap, ptr_queue, sense_pc, sense_ptr, score_pc, score_ptr, log_ptr>>
    /\ BufFrame

\* free(feature_ptr) (main.c:371)
log_free ==
    /\ ~Panicked
    /\ log_pc = "free"
    /\ Free(log_ptr, "logging_task")
    /\ log_pc' = "receive"
    /\ UNCHANGED <<ptr_queue, sense_pc, sense_ptr, score_pc, score_ptr, log_ptr,
                   read_after_free>>
    /\ BufFrame

(***************************************************************************)
(* The specifications.                                                     *)
(***************************************************************************)
Init == PipeInit /\ RelayInit /\ RaceInit /\ ProxyInit /\ ButtonInit /\ ApiInit /\ BufInit

\* the tasks of main.c
Next ==
    \/ power_sense_task
    \/ ocpp_monitor_task
    \/ ml_anomaly_task
    \/ safety_receive
    \/ safety_switch
    \/ safety_open_contactor
    \/ logging_task
    \/ ui_task

Spec == Init /\ [][Next]_vars

\* ml_anomaly_task on one vector of ModelFeatures
ScorerInit ==
    /\ \E f \in ModelFeatures : feature_queue = <<f>>
    /\ alert_queue = <<>>
    /\ ocpp_queue = <<>>
    /\ safety_mutex = "free"
    /\ current_safety_state = "IDLE"
    /\ current_anomaly_score = 0
    /\ session_counter = 0
    /\ contactor_pin = -1
    /\ prev_v = F(0)
    /\ prev_i = F(0)
    /\ ml_last = NoScoring
    /\ safety_pc = "receive"
    /\ safety_alert = [level |-> "NONE", score |-> 0, session_id |-> 0]
    /\ ocpp_msg = [type |-> "UNKNOWN"]
    /\ ui_safety_state = "IDLE"
    /\ RelayInit
    /\ RaceInit
    /\ ProxyInit
    /\ ButtonInit
    /\ ApiInit
    /\ BufInit

ScorerNext == ml_anomaly_task

ScorerSpec == ScorerInit /\ [][ScorerNext]_vars

(***************************************************************************)
(* Arduino/MLModel.h: the electrical rules.  A feature array is the record *)
(* of f[0] .. f[4], each in thousandths of its unit.                       *)
(***************************************************************************)
CURRENT_MAX_THRESHOLD == 30

TEMP_MAX_THRESHOLD == 60

FREQUENCY_NOMINAL == 50

FREQUENCY_TOLERANCE == 2

fabsf(x) == IF x < 0 THEN -x ELSE x

\* the current compared as it is signed, without fabsf
_ruleBasedThreatScoreSigned(f) ==
    LET score == (IF f.currentA > CURRENT_MAX_THRESHOLD * FScale THEN 350 ELSE 0)
               + (IF \/ f.voltageV < VOLTAGE_MIN_THRESHOLD * FScale
                     \/ f.voltageV > VOLTAGE_MAX_THRESHOLD * FScale THEN 350 ELSE 0)
               + (IF fabsf(f.freqHz - FREQUENCY_NOMINAL * FScale)
                        > FREQUENCY_TOLERANCE * FScale THEN 150 ELSE 0)
               + (IF f.tempC > TEMP_MAX_THRESHOLD * FScale THEN 150 ELSE 0)
               + (IF f.powerW > CURRENT_MAX_THRESHOLD * VOLTAGE_MAX_THRESHOLD * FScale
                  THEN 100 ELSE 0)
    IN  IF score > 1000 THEN 1000 ELSE score

\* MLModel::_ruleBasedThreatScore: 0.35 for overcurrent, 0.35 for a voltage
\* out of range, 0.15 for a frequency deviation, 0.15 for overtemperature,
\* 0.10 for overpower, the sum clamped to 1.0
_ruleBasedThreatScore(f) ==
    LET score == (IF fabsf(f.currentA) > CURRENT_MAX_THRESHOLD * FScale THEN 350 ELSE 0)
               + (IF \/ f.voltageV < VOLTAGE_MIN_THRESHOLD * FScale
                     \/ f.voltageV > VOLTAGE_MAX_THRESHOLD * FScale THEN 350 ELSE 0)
               + (IF fabsf(f.freqHz - FREQUENCY_NOMINAL * FScale)
                        > FREQUENCY_TOLERANCE * FScale THEN 150 ELSE 0)
               + (IF f.tempC > TEMP_MAX_THRESHOLD * FScale THEN 150 ELSE 0)
               + (IF f.powerW > CURRENT_MAX_THRESHOLD * VOLTAGE_MAX_THRESHOLD * FScale
                  THEN 100 ELSE 0)
    IN  IF score > 1000 THEN 1000 ELSE score

\* feature arrays on and around every threshold of the electrical rules
ThreatInputs ==
    [currentA : {15000, 30000, 40000, -40000},
     voltageV : {190000, 230000, 250000, 260000},
     powerW   : {3450000, 7500000, 9200000},
     freqHz   : {50000, 52000, 53000},
     tempC    : {25000, 60000, 70000}]

\* the scores the electrical rules give those arrays
ThreatScores == {_ruleBasedThreatScore(f) : f \in ThreatInputs}

\* the fusion and alert block of ml_anomaly_task on a pair of scores
FusionInit ==
    /\ \E r \in RuleScores \cup ThreatScores, m \in MlScores :
         ml_last = [NoScoring EXCEPT !.rule_score = r, !.ml_score = m]
    /\ feature_queue = <<>>
    /\ alert_queue = <<>>
    /\ ocpp_queue = <<>>
    /\ safety_mutex = "free"
    /\ current_safety_state = "IDLE"
    /\ current_anomaly_score = 0
    /\ session_counter = 0
    /\ contactor_pin = -1
    /\ prev_v = F(0)
    /\ prev_i = F(0)
    /\ safety_pc = "receive"
    /\ safety_alert = [level |-> "NONE", score |-> 0, session_id |-> 0]
    /\ ocpp_msg = [type |-> "UNKNOWN"]
    /\ ui_safety_state = "IDLE"
    /\ RelayInit
    /\ RaceInit
    /\ ProxyInit
    /\ ButtonInit
    /\ ApiInit
    /\ BufInit

FusionNext ==
    /\ fuse_and_alert
    /\ UNCHANGED <<feature_queue, ocpp_queue, safety_mutex, current_safety_state,
                   session_counter, contactor_pin, prev_v, prev_i, safety_pc,
                   safety_alert, ocpp_msg, ui_safety_state>>
    /\ UNCHANGED <<relayVars, raceVars, proxyVars, buttonVars, apiVars, bufVars>>

FusionSpec == FusionInit /\ [][FusionNext]_vars

\* alert_level_t
AlertLevels == {"INFO", "WARNING", "CRITICAL"}

\* safety_control_task on one alert of any level, met in any safety state
SafetyInit ==
    /\ current_safety_state \in SafetyStates
    /\ \E l \in AlertLevels :
         alert_queue = <<[level |-> l,
                          score |-> IF l = "CRITICAL" THEN CRITICAL_THRESHOLD
                                    ELSE IF l = "WARNING" THEN WARNING_THRESHOLD ELSE 0,
                          session_id |-> 0]>>
    /\ contactor_pin \in {-1, ContactorOpenLevel}
    /\ feature_queue = <<>>
    /\ ocpp_queue = <<>>
    /\ safety_mutex = "free"
    /\ current_anomaly_score = 0
    /\ session_counter = 0
    /\ prev_v = F(0)
    /\ prev_i = F(0)
    /\ ml_last = NoScoring
    /\ safety_pc = "receive"
    /\ safety_alert = [level |-> "NONE", score |-> 0, session_id |-> 0]
    /\ ocpp_msg = [type |-> "UNKNOWN"]
    /\ ui_safety_state = "IDLE"
    /\ RelayInit
    /\ RaceInit
    /\ ProxyInit
    /\ ButtonInit
    /\ ApiInit
    /\ BufInit

SafetyNext ==
    \/ safety_receive
    \/ safety_switch
    \/ safety_open_contactor
    \/ ui_task

SafetySpec == SafetyInit /\ [][SafetyNext]_vars

\* the Safety Controller of main.c handling one alert while the relay of the
\* Arduino implementation is switched and stopped
PinNext ==
    \/ safety_receive
    \/ safety_switch
    \/ safety_open_contactor
    \/ Until(MaxTime, setRelayState)
    \/ Until(MaxTime, emergencyStop)
    \/ Until(MaxTime, Tick)

PinSpec == SafetyInit /\ [][PinNext]_vars

\* every method of RelayController, in any order
RelayNext ==
    \/ Until(MaxTime, setRelayState)
    \/ Until(MaxTime, emergencyStop)
    \/ Until(MaxTime, resetEmergencyStop)
    \/ Until(MaxTime, checkSafetyLimits)
    \/ Until(MaxTime, handleEmergencyStopButton)
    \/ Until(MaxTime, EmergencyStopInput)
    \/ Until(MaxTime, updateStatus)
    \/ Until(MaxTime, resetFaults)
    \/ Until(MaxTime, enableManualOverride)
    \/ Until(MaxTime, Tick)

RelaySpec == Init /\ [][RelayNext]_vars

\* the relay commanded while the system state machine moves
SystemNext ==
    \/ Until(MaxTime, updateSystemState)
    \/ Until(MaxTime, setRelayState)
    \/ Until(MaxTime, emergencyStop)
    \/ Until(MaxTime, Tick)

SystemSpec == Init /\ [][SystemNext]_vars

\* checkSafetyLimits polled over the overcurrent grace period
LimitsNext ==
    \/ UntilFaults(MaxGraceTime, MaxLimitFaults, checkSafetyLimits)
    \/ UntilFaults(MaxGraceTime, MaxLimitFaults, setRelayState)
    \/ UntilFaults(MaxGraceTime, MaxLimitFaults, Tick)

LimitsSpec == Init /\ [][LimitsNext]_vars

\* emergency stops and resets over the reset cooldown
CooldownNext ==
    \/ Until(MaxCooldownTime, emergencyStop)
    \/ Until(MaxCooldownTime, resetEmergencyStop)
    \/ Until(MaxCooldownTime, resetFaults)
    \/ Until(MaxCooldownTime, Tick)

CooldownSpec == Init /\ [][CooldownNext]_vars

\* every method of RelayController around the debounce window
DebounceNext ==
    \/ UntilFaults(MaxTime, MaxDebounceFaults, setRelayState)
    \/ UntilFaults(MaxTime, MaxDebounceFaults, emergencyStop)
    \/ UntilFaults(MaxTime, MaxDebounceFaults, resetEmergencyStop)
    \/ UntilFaults(MaxTime, MaxDebounceFaults, checkSafetyLimits)
    \/ UntilFaults(MaxTime, MaxDebounceFaults, handleEmergencyStopButton)
    \/ UntilFaults(MaxTime, MaxDebounceFaults, EmergencyStopInput)
    \/ UntilFaults(MaxTime, MaxDebounceFaults, updateStatus)
    \/ UntilFaults(MaxTime, MaxDebounceFaults, resetFaults)
    \/ UntilFaults(MaxTime, MaxDebounceFaults, enableManualOverride)
    \/ UntilFaults(MaxTime, MaxDebounceFaults, Tick)

DebounceSpec == Init /\ [][DebounceNext]_vars

\* faults logged up to and past the limit, requests with and without manual
\* override, stops and resetFaults()
FaultNext ==
    \/ Until(MaxTime, checkSafetyLimits)
    \/ Until(MaxTime, setRelayState)
    \/ Until(MaxTime, emergencyStop)
    \/ Until(MaxTime, resetFaults)
    \/ Until(MaxTime, enableManualOverride)
    \/ Until(MaxTime, Tick)

FaultSpec == Init /\ [][FaultNext]_vars

\* the API manager, whether or not its _initialized flag is set: init() as
\* written leaves it false, and every method is written for the flag set
ApiSpecInit ==
    /\ PipeInit /\ RelayInit /\ RaceInit /\ ProxyInit /\ ButtonInit
    /\ \E initialized \in BOOLEAN : ApiStatics(initialized)
    /\ BufInit

\* the public methods of APIManager over one rate-limit window and the next
ApiNext ==
    \/ api_init
    \/ sendData
    \/ getCommand
    \/ sendAlert
    \/ resetErrorCount
    \/ Until(MaxApiTime, ApiTick)

ApiSpec == ApiSpecInit /\ [][ApiNext]_vars

\* _retryRequest called again and again; a loop that is running is not
\* suspended for ever
RetryNext ==
    \/ retry_enter
    \/ retry_request
    \/ retry_delay

RetrySpec ==
    ApiSpecInit /\ [][RetryNext]_vars /\ WF_vars(retry_request) /\ WF_vars(retry_delay)

\* the three tasks that touch the feature buffers, in every interleaving
BufferNext ==
    \/ sense_malloc
    \/ sense_send
    \/ sense_free
    \/ score_receive
    \/ score_read
    \/ score_free
    \/ log_receive
    \/ log_read
    \/ log_free

BufferSpec == Init /\ [][BufferNext]_vars

\* the OCPP proxy: frames arrive, the monitor takes the messages
ProxyNext ==
    \/ ocpp_proxy_init
    \/ ocpp_websocket_event_handler
    \/ ocpp_proxy_receive_message

ProxySpec == Init /\ [][ProxyNext]_vars

\* frames explored next to the pipeline's queues: a StartTransaction or a
\* MeterValues, the lookup of "messageId" finding nothing
PlainFrame ==
    /\ ws_frame'.type \in {2, 4}
    /\ ws_frame'.id = NoValue
    /\ message_sequence' = message_sequence

\* samples explored next to the proxy: the firmware integrity check passing
IntactSample ==
    feature_queue' # feature_queue => feature_queue'[Len(feature_queue')].fw_ok

\* sessions explored next to the proxy: one StartTransaction at most
OneSession == session_counter' <= 1

\* the producers and their queues: the sampler, the monitor, the scorer, and
\* the proxy's handler with the reader of its queue
BackpressureNext ==
    \/ power_sense_task /\ IntactSample
    \/ ocpp_monitor_task /\ OneSession
    \/ ml_anomaly_task
    \/ ocpp_proxy_init
    \/ ocpp_websocket_event_handler /\ PlainFrame
    \/ ocpp_proxy_receive_message

BackpressureSpec == Init /\ [][BackpressureNext]_vars

\* frames explored next to the sampler: a StartTransaction or a remote stop,
\* the lookup of "messageId" finding nothing
StopFrame ==
    /\ ws_frame'.type \in {2, 3}
    /\ ws_frame'.id = NoValue
    /\ message_sequence' = message_sequence

\* the sampler has not produced a vector yet
BeforeFirstSample == feature_queue = <<>> /\ ~ml_last.scored /\ prev_v = F(0)

\* the proxy counts the frames that arrive before the first sample; the
\* sampler and the scorer then run
MetricsNext ==
    \/ ocpp_websocket_event_handler /\ StopFrame /\ BeforeFirstSample
    \/ power_sense_task
    \/ ml_anomaly_task

MetricsSpec == Init /\ [][MetricsNext]_vars

\* setRelayState(RELAY_ON) raced against emergencyStop()
RelayRaceNext ==
    \/ Until(MaxRaceTime, set_check)
    \/ Until(MaxRaceTime, set_write)
    \/ Until(MaxRaceTime, set_update)
    \/ Until(MaxRaceTime, stop_write)
    \/ Until(MaxRaceTime, stop_update)
    \/ Until(MaxRaceTime, race_again)
    \* the status poll, once both calls have returned
    \/ Until(MaxRaceTime, updateStatus /\ set_pc = "done" /\ stop_pc = "done")
    \/ Until(MaxRaceTime, enableManualOverride)
    \/ Until(MaxRaceTime, Tick)

RelayRaceSpec == Init /\ [][RelayRaceNext]_vars

C2_LockdownSeenAfterOffCommand ==
    ui_safety_state = "LOCKDOWN" => contactor_pin = ContactorOpenLevel

\* C3: a setRelayState(RELAY_ON) that succeeds is called with the system state
\* Charging (the relay's enabling state) and with no interlock active: no
\* emergency stop, fault count not above 5.
C3_OnOnlyWhenCharging ==
    [][(setRelayStateCall("RELAY_ON") /\ last_call'.ok)
         => /\ currentState = "STATE_CHARGING"
            /\ ~_emergencyStopActive
            /\ _status.faultCount <= 5]_vars

C5_EmergencyStopWinsRace ==
    (set_pc = "done" /\ stop_pc = "done")
        => (relay_pin = OffLevel /\ _currentState # "RELAY_ON")

\* C6: fatal override: a scored vector with tamper set or fw_ok clear gives an
\* alert of level CRITICAL, sent to alert_queue, whatever its other fields.
C6_FatalOverrideCritical ==
    (ml_last.scored /\ (ml_last.feature.tamper \/ ~ml_last.feature.fw_ok))
        => /\ ml_last.level = "CRITICAL"
           /\ ml_last.sent
           /\ Len(alert_queue) = 1
           /\ alert_queue[1].level = "CRITICAL"

\* C6, its case: a vector whose only anomaly is the tamper switch has been
\* scored and its alert queued.
C6_Witness ==
    /\ ml_last.scored
    /\ ml_last.feature = [NominalFeature EXCEPT !.tamper = TRUE]
    /\ alert_queue # <<>>

\* C7: every step that reads or writes current_safety_state is taken by a task
\* holding safety_mutex: the read of ui_task, the write of ocpp_monitor_task on
\* a StartTransaction, the switch of safety_control_task.
C7_SafetyStateUnderMutex ==
    [][/\ (ui_safety_state' # ui_safety_state) => safety_mutex = "ui_task"
       /\ (ocpp_monitor_task /\ ocpp_msg'.type = "START_TRANSACTION")
             => safety_mutex = "ocpp_monitor_task"
       /\ safety_switch => safety_mutex = "safety_control_task"]_vars

\* C8: resetEmergencyStop() clears an active emergency stop only if 5000 ms
\* have passed since the last stop and the fault count is at most 5; when it
\* leaves the stop active it returns false and changes neither the flag, the
\* relay state, the pin nor the fault count.
C8_ResetGated ==
    [][resetEmergencyStop =>
         /\ (_emergencyStopActive /\ ~_emergencyStopActive')
               => /\ now - _lastEmergencyStopTime >= FAULT_RESET_TIME_MS
                  /\ _status.faultCount <= 5
         /\ (_emergencyStopActive /\ _emergencyStopActive')
               => /\ ~last_call'.ok
                  /\ _currentState' = _currentState
                  /\ relay_pin' = relay_pin
                  /\ _status'.faultCount = _status.faultCount
                  /\ _faultHistory' = _faultHistory
         /\ ~last_call'.ok => (_emergencyStopActive /\ _emergencyStopActive')]_vars

\* C8, its case: a reset has been refused inside the cooldown.
C8_Witness ==
    /\ last_call = [op |-> "resetEmergencyStop", ok |-> FALSE]
    /\ _emergencyStopActive
    /\ now - _lastEmergencyStopTime < FAULT_RESET_TIME_MS
    /\ _status.faultCount <= 5

\* what a call of checkSafetyLimits that trips leaves behind
StoppedInCall ==
    /\ _emergencyStopActive'
    /\ _currentState' = "RELAY_EMERGENCY_STOP"
    /\ relay_pin' = OffLevel
    /\ _lastEmergencyStopTime' = now + RELAY_DEBOUNCE_MS
    /\ now' = now + RELAY_DEBOUNCE_MS

\* what a call that does not trip leaves alone
NotStoppedInCall ==
    /\ _emergencyStopActive' = _emergencyStopActive
    /\ _currentState' = _currentState
    /\ relay_pin' = relay_pin
    /\ _lastEmergencyStopTime' = _lastEmergencyStopTime
    /\ now' = now

\* C9: overcurrent grace: a poll with the current above the threshold trips the
\* emergency stop exactly when the excursion has lasted more than 1000 ms; a
\* poll at or below the threshold trips nothing and ends the excursion, and
\* the first poll of an excursion starts its timer at that instant.
C9_OvercurrentGrace ==
    [][\A current \in Currents, voltage \in Voltages :
          (checkSafetyLimitsCall(current, voltage) /\ voltage <= VOLTAGE_MAX_THRESHOLD)
             => LET start == IF _overcurrentDetected THEN _overcurrentStartTime ELSE now
                IN  /\ (current > MAX_CURRENT_THRESHOLD /\ now - start > OVERCURRENT_TIME_MS)
                          => StoppedInCall
                    /\ (current > MAX_CURRENT_THRESHOLD /\ now - start <= OVERCURRENT_TIME_MS)
                          => /\ NotStoppedInCall
                             /\ _overcurrentDetected'
                             /\ _overcurrentStartTime' = start
                    /\ current <= MAX_CURRENT_THRESHOLD
                          => /\ NotStoppedInCall
                             /\ ~_overcurrentDetected']_vars

\* C9, its case: an excursion that began after start-up has tripped at a poll
\* 1 ms past its grace period.
C9_Witness ==
    /\ last_call.op = "checkSafetyLimits"
    /\ _status.lastFaultReason = "Overcurrent protection triggered"
    /\ _emergencyStopActive
    /\ _overcurrentStartTime > RELAY_DEBOUNCE_MS
    /\ now = _overcurrentStartTime + OVERCURRENT_TIME_MS + 1 + RELAY_DEBOUNCE_MS

\* C10: a call of checkSafetyLimits with the voltage above
\* VOLTAGE_MAX_THRESHOLD ends with the relay pin Off and the emergency stop
\* set, whatever the current, the relay state and the time.
C10_OvervoltageStops ==
    [][\A current \in Currents, voltage \in Voltages :
          (checkSafetyLimitsCall(current, voltage) /\ voltage > VOLTAGE_MAX_THRESHOLD)
             => /\ _emergencyStopActive'
                /\ _status'.emergencyStopActive
                /\ _currentState' = "RELAY_EMERGENCY_STOP"
                /\ relay_pin' = OffLevel
                /\ _status'.lastFaultReason = "Overvoltage protection triggered"]_vars

\* C10, its case: an overvoltage sample has stopped a relay that was On.
C10_Witness ==
    /\ last_call.op = "checkSafetyLimits"
    /\ _status.lastFaultReason = "Overvoltage protection triggered"
    /\ _emergencyStopActive
    /\ relay_pin = OffLevel
    /\ _lastStateChange > RELAY_DEBOUNCE_MS
    /\ _status.faultCount = 2

\* C11: while the fault count is above 5 every setRelayState request returns
\* false and changes nothing, and emergencyStop() is still carried out;
\* resetFaults() puts the count back to 0, and a request made with the count at
\* most 5, no emergency stop and the debounce over is accepted.
C11_FaultLimitRefuses ==
    [][/\ \A state \in RequestedStates :
            (setRelayStateCall(state) /\ _status.faultCount > 5)
               => /\ ~last_call'.ok
                  /\ _currentState' = _currentState
                  /\ relay_pin' = relay_pin
                  /\ _status' = _status
                  /\ now' = now
       /\ (emergencyStop /\ _status.faultCount > 5)
             => /\ last_call'.ok
                /\ _emergencyStopActive'
                /\ _currentState' = "RELAY_EMERGENCY_STOP"
                /\ relay_pin' = OffLevel
       /\ resetFaults => _status'.faultCount = 0
       /\ \A state \in RequestedStates :
            (/\ setRelayStateCall(state)
             /\ _status.faultCount <= 5
             /\ ~_emergencyStopActive
             /\ (_currentState = state \/ now - _lastStateChange >= RELAY_DEBOUNCE_MS))
               => /\ last_call'.ok
                  /\ _currentState' = state
                  /\ relay_pin' = PinState(state)]_vars

\* C11, its case: a request has been refused for the fault count alone (no
\* emergency stop, debounce over).
C11_Witness ==
    /\ last_call = [op |-> "setRelayState", ok |-> FALSE]
    /\ _status.faultCount > 5
    /\ ~_emergencyStopActive
    /\ now - _lastStateChange >= RELAY_DEBOUNCE_MS

C13_AlertThresholds ==
    ml_last.scored
        => LET c == (RULE_SCORE_WEIGHT * ml_last.rule_score
                     + ML_SCORE_WEIGHT * ml_last.ml_score) \div FScale
           IN  /\ current_anomaly_score = c
               /\ c >= 800
                     => alert_queue = <<[level |-> "CRITICAL", score |-> c, session_id |-> 0]>>
               /\ (c >= 500 /\ c < 800)
                     => alert_queue = <<[level |-> "WARNING", score |-> c, session_id |-> 0]>>
               /\ c < 500 => alert_queue = <<>>

\* C13, its case: a combined score of exactly 0.8 has been turned into a
\* Critical alert.
C13_Witness ==
    /\ ml_last.scored
    /\ current_anomaly_score = 800
    /\ Len(alert_queue) = 1
    /\ alert_queue[1].level = "CRITICAL"

\* C14: a Warning alert takes the safety state to SUSPICIOUS when it is
\* CHARGING and leaves it as it is in every other state; in all cases the
\* contactor pin is not written and the handler is done.
C14_WarningOnlyFromCharging ==
    [][(safety_switch /\ safety_alert.level = "WARNING")
         => /\ current_safety_state' =
                 IF current_safety_state = "CHARGING" THEN "SUSPICIOUS"
                 ELSE current_safety_state
            /\ contactor_pin' = contactor_pin
            /\ safety_pc' = "receive"]_vars

\* C14, its case: a Warning alert met in CHARGING has been handled.
C14_Witness ==
    /\ safety_alert.level = "WARNING"
    /\ safety_pc = "receive"
    /\ safety_mutex = "free"
    /\ current_safety_state = "SUSPICIOUS"

LastRelayChange ==
    IF _currentState = "RELAY_EMERGENCY_STOP" THEN _lastEmergencyStopTime
    ELSE _lastStateChange

\* C17: relay debounce: an operation that changes the relay state does so no
\* earlier than RELAY_DEBOUNCE_MS after the previous change, and a
\* setRelayState request for another state made inside that window returns
\* false and leaves the relay state and the pin as they are.
C17_Debounce ==
    [][/\ _currentState' # _currentState
             => (IF _currentState' = "RELAY_EMERGENCY_STOP"
                 THEN _lastEmergencyStopTime' ELSE _lastStateChange')
                   >= LastRelayChange + RELAY_DEBOUNCE_MS
       /\ \A state \in RequestedStates :
            (/\ setRelayStateCall(state)
             /\ state # _currentState
             /\ now - LastRelayChange < RELAY_DEBOUNCE_MS)
               => /\ ~last_call'.ok
                  /\ _currentState' = _currentState
                  /\ relay_pin' = relay_pin]_vars

\* C17, its case: a request has been refused for the debounce window alone.
C17_Witness ==
    /\ last_call = [op |-> "setRelayState", ok |-> FALSE]
    /\ now - _lastStateChange < RELAY_DEBOUNCE_MS
    /\ ~_emergencyStopActive
    /\ _status.faultCount <= 5

\* C18: every inbound message carrying a sequence number s gets out_of_sequence
\* set, and out_of_sequence_count incremented by exactly one, iff s differs
\* from last_sequence + 1, and last_sequence becomes s in both cases.
C18_SequenceTracking ==
    [][(ocpp_websocket_event_handler /\ ws_frame'.id # NoValue) =>
         LET s       == ws_frame'.id
             skipped == s # message_sequence + 1
         IN  /\ ws_msg'.out_of_sequence = skipped
             /\ current_metrics'.out_of_sequence_count =
                   current_metrics.out_of_sequence_count + (IF skipped THEN 1 ELSE 0)
             /\ message_sequence' = s]_vars

\* C19: every inbound frame whose payload cannot be parsed, or that has no
\* usable message-type identifier, yields a message of type Unknown with
\* malformed set and a timestamp, counts once in malformed_count, and is
\* queued when the queue has room.
C19_MalformedIsUnknown ==
    [][(ocpp_websocket_event_handler /\ (~ws_frame'.json \/ ws_frame'.type = NoValue)) =>
         /\ ws_msg'.type = "UNKNOWN"
         /\ ws_msg'.malformed
         /\ ws_msg'.stamped
         /\ current_metrics'.malformed_count = current_metrics.malformed_count + 1
         /\ (message_queue.created /\ Len(message_queue.items) < ProxyQueueLen =>
               message_queue'.items = Append(message_queue.items, ws_msg'))]_vars

C22_FeaturesReachScorer ==
    [][Len(feature_queue') < Len(feature_queue) =>
         /\ ml_anomaly_task
         /\ ml_last'.scored
         /\ ml_last'.feature = Head(feature_queue)]_vars

\* the float fields of a feature vector are all finite
FiniteVector(f) ==
    \A x \in {f.v_rms, f.i_rms, f.p_kw, f.pf, f.thd_v, f.thd_i, f.dvdt, f.didt,
               f.ocpp_rate, f.temp_c} : FIsFinite(x)

ProducedInOrder ==
    (IF ml_last.scored THEN <<ml_last.feature>> ELSE <<>>) \o feature_queue

\* C24: tamper and integrity failure are latched: once a tick has produced a
\* vector with tamper set (or fw_ok clear), every vector produced on a later
\* tick carries tamper set (fw_ok clear).
C24_TamperLatched ==
    \A i, j \in 1..Len(ProducedInOrder) :
        i < j =>
            /\ (ProducedInOrder[i].tamper => ProducedInOrder[j].tamper)
            /\ (~ProducedInOrder[i].fw_ok => ~ProducedInOrder[j].fw_ok)

\* C25: the fault history is append-only: every operation of the relay
\* controller leaves the history it found as a prefix of the history it leaves.
C25_FaultHistoryAppendOnly ==
    [][/\ Len(_faultHistory') >= Len(_faultHistory)
       /\ SubSeq(_faultHistory', 1, Len(_faultHistory)) = _faultHistory]_vars

\* C26: every entry into Lockdown is accompanied by a fault-history record
\* written as part of the transition: a step that takes the safety state to
\* LOCKDOWN appends a record to the fault history (_faultHistory is the only
\* fault history the code keeps).
C26_LockdownRecordsReason ==
    [][(current_safety_state # "LOCKDOWN" /\ current_safety_state' = "LOCKDOWN") =>
         /\ Len(_faultHistory') > Len(_faultHistory)
         /\ _status'.lastFaultReason # ""]_vars

\* C27: whenever the relay differs from the commanded state at a status
\* update, the relay is marked unhealthy and a fault record is appended: after
\* a status update made with the relay pin energised and the commanded state
\* not RELAY_ON (or the reverse), isHealthy is false and the last fault is the
\* feedback mismatch.
C27_FeedbackMismatchFlagged ==
    (/\ set_pc = "done" /\ stop_pc = "done"
     /\ last_call.op = "updateStatus"
     /\ (relay_pin = PinState("RELAY_ON")) # (_currentState = "RELAY_ON"))
        => (~_status.isHealthy /\ _status.lastFaultReason = "Relay feedback mismatch")

\* C28: the burst rules are strict thresholds: in a scored vector without
\* tamper or integrity failure, remote_stop_cnt adds exactly 0.6 to rule_score
\* when it is 4 or more and nothing when it is 3 or less, and malformed adds
\* exactly 0.4 when it is 3 or more and nothing when it is 2 or less (each
\* measured against the same vector with the counter at 0).
C28_BurstRulesStrict ==
    LET f == ml_last.feature
    IN  (ml_last.scored /\ ~f.tamper /\ f.fw_ok) =>
            /\ ml_last.rule_score = RuleScore(f)
            /\ RuleScore(f) - RuleScore([f EXCEPT !.remote_stop_cnt = 0])
                  = IF f.remote_stop_cnt >= 4 THEN 600 ELSE 0
            /\ RuleScore(f) - RuleScore([f EXCEPT !.malformed = 0])
                  = IF f.malformed >= 3 THEN 400 ELSE 0

\* a vector with remote_stop_cnt = 4 and nothing else has been scored 0.6,
\* as a vector with the counter at the threshold would not be
C28_Witness ==
    /\ ml_last.scored
    /\ ~ml_last.feature.tamper /\ ml_last.feature.fw_ok
    /\ ml_last.feature.remote_stop_cnt = 4
    /\ ml_last.feature.malformed = 2
    /\ ml_last.rule_score = 600

\* C29: the protocol metrics reach the Scorer: the remote_stop_cnt, malformed
\* and out_of_seq of a scored vector are the numbers of such messages the
\* proxy has counted (here all received before the vector was sampled, and
\* within the window).
C29_MetricsReachScorer ==
    ml_last.scored =>
        /\ ml_last.feature.remote_stop_cnt = current_metrics.remote_stop_count
        /\ ml_last.feature.malformed = current_metrics.malformed_count
        /\ ml_last.feature.out_of_seq = current_metrics.out_of_sequence_count

\* C30: an array whose only triggered electrical rule is the overcurrent one
\* gets rule score 0.35; fused with a reconstruction error of 0 that is a
\* combined score of 0.21, below the warning threshold: no alert is queued,
\* the safety task has nothing to receive and the safety state is unchanged.
OnlyOvercurrent(f) ==
    /\ fabsf(f.currentA) > CURRENT_MAX_THRESHOLD * FScale
    /\ f.voltageV >= VOLTAGE_MIN_THRESHOLD * FScale
    /\ f.voltageV <= VOLTAGE_MAX_THRESHOLD * FScale
    /\ fabsf(f.freqHz - FREQUENCY_NOMINAL * FScale) <= FREQUENCY_TOLERANCE * FScale
    /\ f.tempC <= TEMP_MAX_THRESHOLD * FScale
    /\ f.powerW <= CURRENT_MAX_THRESHOLD * VOLTAGE_MAX_THRESHOLD * FScale

C31_ButtonDebounced ==
    [][(/\ last_call'.op = "handleEmergencyStopButton"
        /\ ~_emergencyStopActive
        /\ _emergencyStopActive')
          => /\ emergency_stop_pin = LOW
             /\ now - emergency_stop_since >= RELAY_DEBOUNCE_MS]_vars

\* C32: _retryRequest makes at most RETRY_ATTEMPTS attempts, goes on only
\* after a failed attempt, returns true at the first success and false after
\* the third failure, has waited RETRY_DELAY_MS * k after attempt k and nothing
\* after the last one, and every call of it returns.
RetryWaits(n) == [k \in 1..n |-> RETRY_DELAY_MS * k]

RetryBounded ==
    /\ attempt <= RETRY_ATTEMPTS
    /\ retry_pc = "delay" => (attempt < RETRY_ATTEMPTS /\ ~api_call.ok)
    /\ retry_pc \in {"request", "delay"}
         => (attempt < RETRY_ATTEMPTS => retry_delays = RetryWaits(attempt))
    /\ (retry_pc = "done" /\ retry_result)
         => /\ api_call.ok
            /\ attempt < RETRY_ATTEMPTS
            /\ retry_delays = RetryWaits(attempt)
    /\ (retry_pc = "done" /\ ~retry_result)
         => /\ attempt = RETRY_ATTEMPTS
            /\ ~api_call.ok
            /\ retry_delays = RetryWaits(RETRY_ATTEMPTS - 1)

C32_RetryBounded == []RetryBounded /\ (retry_pc = "request" ~> retry_pc = "done")

\* C32, its case: three attempts have failed, with waits of 1000 ms and
\* 2000 ms between them, and the call has returned false.
C32_Witness ==
    /\ retry_pc = "done"
    /\ ~retry_result
    /\ attempt = RETRY_ATTEMPTS
    /\ retry_delays = <<1000, 2000>>
    /\ now >= 3100

C33_RecoveryReachable ==
    [][(/\ last_call'.op = "resetEmergencyStop"
        /\ _emergencyStopActive
        /\ now - _lastEmergencyStopTime >= FAULT_RESET_TIME_MS
        /\ emergency_stop_pin = HIGH
        /\ _status.faultCount <= 5)
          => (last_call'.ok /\ ~_emergencyStopActive')]_vars

\* C34: a request to switch Off made while the relay is On and the debounce
\* window has passed succeeds and drives the pin to its Off level.
C34_FailSafeOff ==
    [][(/\ setRelayStateCall("RELAY_OFF")
        /\ _currentState = "RELAY_ON"
        /\ now - _lastStateChange >= RELAY_DEBOUNCE_MS)
          => /\ last_call'.ok
             /\ relay_pin' = OffLevel
             /\ _currentState' = "RELAY_OFF"]_vars

Holders(b) ==
    {i \in 1..Len(ptr_queue) : ptr_queue[i] = b}
    \cup (IF sense_pc \in {"send", "free"} /\ sense_ptr = b THEN {-1} ELSE {})
    \cup (IF score_pc \in {"score", "free"} /\ score_ptr = b THEN {-2} ELSE {})
    \cup (IF log_pc \in {"log", "free"} /\ log_ptr = b THEN {-3} ELSE {})

C37_BufferOwnership ==
    /\ ~read_after_free
    /\ \A b \in Buffers :
          /\ heap[b].frees <= 1
          /\ heap[b].state = "allocated" => (heap[b].frees = 0 /\ Cardinality(Holders(b)) = 1)
          /\ heap[b].state = "freed" => (heap[b].frees = 1 /\ Holders(b) = {})
          /\ heap[b].state = "unused" => (heap[b].frees = 0 /\ Holders(b) = {})

\* C37, its case: one buffer was freed by the Sampler after a failed enqueue,
\* one by the Scorer and one by the Logger.
C37_Witness ==
    /\ \E b \in Buffers : heap[b].by = "power_sense_task"
    /\ \E b \in Buffers : heap[b].by = "ml_anomaly_task"
    /\ \E b \in Buffers : heap[b].by = "logging_task"

\* C38: after every operation of RelayController, called one after the other
\* in any order, an active emergency stop means that the relay state is not
\* RELAY_ON and the pin is at its Off level.
C38_StopMeansOff ==
    _emergencyStopActive
        => /\ _currentState # "RELAY_ON"
           /\ _status.state # "RELAY_ON"
           /\ relay_pin = OffLevel

\* C38, its case: the relay was switched On, the stop was raised, and a
\* request made with manual override after the debounce window was refused.
C38_Witness ==
    /\ _emergencyStopActive
    /\ _manualOverrideEnabled
    /\ _lastStateChange > RELAY_DEBOUNCE_MS
    /\ now - _lastStateChange >= RELAY_DEBOUNCE_MS
    /\ last_call = [op |-> "setRelayState", ok |-> FALSE]
    /\ relay_pin = OffLevel

\* C39: the fault count is the number of records in the fault history; a
\* sample that is only an overvoltage raises it by exactly one; and a poll of
\* checkSafetyLimits during an overcurrent episode that has already tripped
\* the stop, with the voltage in range, does not raise it.
C39_FaultAccounting ==
    [][/\ _status'.faultCount = Len(_faultHistory')
       /\ \A current \in Currents, voltage \in Voltages :
            checkSafetyLimitsCall(current, voltage)
               => /\ (current <= MAX_CURRENT_THRESHOLD /\ voltage > VOLTAGE_MAX_THRESHOLD)
                       => _status'.faultCount = _status.faultCount + 1
                  /\ (/\ current > MAX_CURRENT_THRESHOLD
                      /\ voltage >= VOLTAGE_MIN_THRESHOLD
                      /\ voltage <= VOLTAGE_MAX_THRESHOLD
                      /\ _overcurrentDetected
                      /\ _emergencyStopActive
                      /\ _status.lastFaultReason = "Overcurrent protection triggered")
                       => _status'.faultCount = _status.faultCount]_vars

\* C40: once safety_control_task has handled a Critical alert, the level it
\* wrote to the contactor pin is the level on the relay pin whenever the
\* relay is Off or stopped, and is not the level on the relay pin when the
\* relay is On.
C40_SameOffLevel ==
    (/\ safety_pc = "receive"
     /\ safety_alert.level = "CRITICAL"
     /\ CONTACTOR_ACTIVE_LOW = RELAY_ACTIVE_LOW)
        => /\ _currentState \in {"RELAY_OFF", "RELAY_EMERGENCY_STOP"}
                => contactor_pin = relay_pin
           /\ _currentState = "RELAY_ON" => contactor_pin # relay_pin


====
